---- MODULE Spec2Model ----
(***************************************************************************)
(* Model of the SnippetManager syntax highlighter                          *)
(* (src/syntax_highlighter.py): the per-block state machine highlightBlock, *)
(* the rule table built by _setup_delimiters_and_rules, the host editor's  *)
(* block state and format painting, and the highlighting of a document     *)
(* block by block (src/snippet_manager.py, _update_highlighter).           *)
(*                                                                         *)
(* Text is a sequence of one-character strings.  Offsets are 0-based as in *)
(* the source; text[i + 1] is the character at offset i.                   *)
(***************************************************************************)
EXTENDS Integers, Sequences, FiniteSets, TLC

VARIABLES
  language,        \* the language name the highlighter was built with
  text,            \* one block's text
  previous_state,  \* previousBlockState() of that block
  block_state,     \* that block's user state
  calls,           \* the setFormat calls made on that block, in order
  pc,
  doc,             \* a document: the texts of its blocks
  doc_states,      \* the user state of each block of doc
  doc_calls,       \* the setFormat calls of each block's last highlighting
  pass,            \* "first" highlighting of doc, or highlighting it "again"
  cursor,          \* the number of blocks of doc highlighted in this pass
  snap,            \* doc_states and doc_calls as the first pass left them
  stack,           \* the highlightBlock invocations waiting at line 457
  tail_at,         \* the offset in text of the tail the next invocation gets
  settings,        \* the stored syntax_colors values, by colour key
  highlighter,     \* the SyntaxHighlighter object: its fields
  snippets,        \* the rows of the snippets table
  clock,           \* the current UTC time, in whole seconds
  log,             \* the add, update and delete calls made, in order
  returned,        \* what the last database function called returned
  current_snippet_id,  \* the id of the snippet being edited, or None
  tag_filter,      \* the current text of the tag filter combo box
  list_items,      \* the ids of the items of the snippet list widget
  title_input,     \* the text of the title field of the details panel
  tags_input,      \* the text of the tags field of the details panel
  shown,           \* the message the last handler showed, "" when none
  search_input,    \* the text of the search field
  selected_item    \* the id of the selected item of the list, or None

blockVars == <<language, text, previous_state, block_state, calls>>
docVars == <<doc, doc_states, doc_calls, pass, cursor, snap>>
callVars == <<stack, tail_at>>
buildVars == <<settings, highlighter>>
storeVars == <<snippets, clock, log, returned>>
windowVars == <<current_snippet_id, tag_filter, list_items, title_input,
                tags_input, shown, search_input, selected_item>>
appVars == <<storeVars, windowVars>>
vars == <<language, text, previous_state, block_state, calls, pc,
          doc, doc_states, doc_calls, pass, cursor, snap, stack, tail_at,
          settings, highlighter, snippets, clock, log, returned,
          current_snippet_id, tag_filter, list_items, title_input,
          tags_input, shown, search_input, selected_item>>

(***************************************************************************)
(* State constants (syntax_highlighter.py:9-12).                           *)
(***************************************************************************)
STATE_NORMAL == -1
STATE_ML_COMMENT == 1
STATE_ML_STRING_DQ == 2
STATE_ML_STRING_SQ == 3

States == {STATE_NORMAL, STATE_ML_COMMENT, STATE_ML_STRING_DQ, STATE_ML_STRING_SQ}

\* A delimiter or pattern that is not set (Python None).
None == <<>>

(***************************************************************************)
(* Bounds of the model.                                                    *)
(***************************************************************************)
\* Largest number of fragments concatenated into one block text.
MaxFrags == 3
\* Largest number of blocks of a document, and of fragments in one of its
\* blocks.
MaxBlocks == 2
MaxLineFrags == 1

(***************************************************************************)
(* Character classes of the regular expressions.                           *)
(***************************************************************************)
Digits == {"0", "1", "2", "3", "4", "5", "6", "7", "8", "9"}

LowerCase ==
  {"a", "b", "c", "d", "e", "f", "g", "h", "i", "j", "k", "l", "m",
   "n", "o", "p", "q", "r", "s", "t", "u", "v", "w", "x", "y", "z"}

UpperCase ==
  {"A", "B", "C", "D", "E", "F", "G", "H", "I", "J", "K", "L", "M",
   "N", "O", "P", "Q", "R", "S", "T", "U", "V", "W", "X", "Y", "Z"}

\* \w
WordChars == LowerCase \cup UpperCase \cup Digits \cup {"_"}

\* \s (a block holds no line break; "\t" stands for the tab character)
SpaceChars == {" ", "\t"}

HexChars == Digits \cup {"a", "b", "c", "d", "e", "f", "A", "B", "C", "D", "E", "F"}

(***************************************************************************)
(* A backtracking matcher with the priorities of QRegularExpression        *)
(* (PCRE): a pattern is a sequence of nodes; Match returns the offset just *)
(* after the first match found in priority order that starts at offset p,  *)
(* or -1.                                                                  *)
(*   <<"lit", cs>>      the characters cs                                  *)
(*   <<"any">>          .                                                  *)
(*   <<"in", S>>        [S]            <<"notin", S>>   [^S]               *)
(*   <<"star", n>>      n*  (greedy)   <<"lazy", n>>    n*?                *)
(*   <<"plus", n>>      n+             <<"opt", n>>     n?                 *)
(*   <<"seq", ns>>      (ns)           <<"alt", <<ns1, ns2, ...>>>>        *)
(*   <<"b">>            \b             <<"bol">>        ^                  *)
(*   <<"la", ns>>       (?=ns)         <<"nla", ns>>    (?!ns)             *)
(*   <<"nlb", S>>       (?<![S])       <<"word", cs>>   \bcs\b             *)
(***************************************************************************)
IsWordAt(t, i) == i >= 0 /\ i < Len(t) /\ t[i + 1] \in WordChars

AtBoundary(t, p) == IsWordAt(t, p - 1) # IsWordAt(t, p)

RECURSIVE Match(_, _, _), MatchAlt(_, _, _, _)
Match(ns, t, p) ==
  IF ns = <<>> THEN p
  ELSE
    LET n == Head(ns)
        rest == Tail(ns)
        k == n[1]
        one(ok) == IF p < Len(t) /\ ok THEN Match(rest, t, p + 1) ELSE -1
    IN CASE k = "lit" ->
              IF p + Len(n[2]) <= Len(t) /\ SubSeq(t, p + 1, p + Len(n[2])) = n[2]
              THEN Match(rest, t, p + Len(n[2])) ELSE -1
         [] k = "any" -> one(TRUE)
         [] k = "in" -> one(p < Len(t) /\ t[p + 1] \in n[2])
         [] k = "notin" -> one(p < Len(t) /\ t[p + 1] \notin n[2])
         [] k = "b" -> IF AtBoundary(t, p) THEN Match(rest, t, p) ELSE -1
         [] k = "bol" -> IF p = 0 THEN Match(rest, t, p) ELSE -1
         [] k = "nlb" ->
              IF p >= 1 /\ t[p] \in n[2] THEN -1 ELSE Match(rest, t, p)
         [] k = "la" ->
              IF Match(n[2], t, p) # -1 THEN Match(rest, t, p) ELSE -1
         [] k = "nla" ->
              IF Match(n[2], t, p) = -1 THEN Match(rest, t, p) ELSE -1
         [] k = "seq" -> Match(n[2] \o rest, t, p)
         [] k = "opt" ->
              LET r == Match(<<n[2]>> \o rest, t, p)
              IN IF r # -1 THEN r ELSE Match(rest, t, p)
         [] k = "star" ->
              LET r == Match(<<n[2], n>> \o rest, t, p)
              IN IF r # -1 THEN r ELSE Match(rest, t, p)
         [] k = "lazy" ->
              LET r == Match(rest, t, p)
              IN IF r # -1 THEN r ELSE Match(<<n[2], n>> \o rest, t, p)
         [] k = "plus" -> Match(<<n[2], <<"star", n[2]>>>> \o rest, t, p)
         [] k = "alt" -> MatchAlt(n[2], rest, t, p)
         [] k = "word" ->
              Match(<< <<"b">>, <<"lit", n[2]>>, <<"b">> >> \o rest, t, p)
         [] OTHER -> -1

\* The alternatives of (a|b|...) are tried from left to right.
MatchAlt(alts, rest, t, p) ==
  IF alts = <<>> THEN -1
  ELSE LET r == Match(Head(alts) \o rest, t, p)
       IN IF r # -1 THEN r ELSE MatchAlt(Tail(alts), rest, t, p)

\* The first offset >= from at which the pattern matches, with the match's
\* end: <<start, end>>, or <<-1, -1>> (QRegularExpression.match(text, from)).
RECURSIVE FirstMatch(_, _, _)
FirstMatch(pat, t, from) ==
  IF from > Len(t) THEN <<-1, -1>>
  ELSE LET r == Match(pat, t, from)
       IN IF r # -1 THEN <<from, r>> ELSE FirstMatch(pat, t, from + 1)

\* The maximal runs of word characters of t from offset from on, as
\* <<start, length>> pairs from left to right.
RECURSIVE WordRuns(_, _)
WordRuns(t, from) ==
  IF from >= Len(t) THEN <<>>
  ELSE IF ~IsWordAt(t, from) THEN WordRuns(t, from + 1)
  ELSE LET e == CHOOSE j \in (from + 1)..Len(t) :
                  /\ \A i \in from..(j - 1) : IsWordAt(t, i)
                  /\ ~IsWordAt(t, j)
       IN <<<<from, e - from>>>> \o WordRuns(t, e)

\* QRegularExpression.globalMatch(t): the successive non-overlapping matches
\* from left to right, as <<capturedStart, capturedLength>> pairs.
RECURSIVE GlobalMatchFrom(_, _, _)
GlobalMatchFrom(pat, t, from) ==
  LET m == FirstMatch(pat, t, from)
  IN IF m[1] = -1 THEN <<>>
     ELSE <<<<m[1], m[2] - m[1]>>>> \o
          GlobalMatchFrom(pat, t, IF m[2] > m[1] THEN m[2] ELSE m[1] + 1)

\* A pattern \bcs\b with cs made of word characters matches exactly the
\* maximal word runs equal to cs.
GlobalMatch(pat, t) ==
  IF Len(pat) = 1 /\ pat[1][1] = "word"
  THEN SelectSeq(WordRuns(t, 0),
                 LAMBDA r : SubSeq(t, r[1] + 1, r[1] + r[2]) = pat[1][2])
  ELSE GlobalMatchFrom(pat, t, 0)

(***************************************************************************)
(* The rule table: _setup_delimiters_and_rules.                            *)
(***************************************************************************)
\* The language names offered by the editor and their lower-cased form
\* (self.language = language.lower()).
LanguageNames ==
  {"C#", "C++", "CSS", "HTML", "JavaScript", "Markdown", "Python", "SQL", "Text",
   "Cobol"}

lower(name) ==
  CASE name = "Python" -> "python"
    [] name = "C++" -> "c++"
    [] name = "Text" -> "text"
    [] name = "Cobol" -> "cobol"
    [] name = "C#" -> "c#"
    [] name = "CSS" -> "css"
    [] name = "HTML" -> "html"
    [] name = "JavaScript" -> "javascript"
    [] name = "Markdown" -> "markdown"
    [] name = "SQL" -> "sql"
    [] OTHER -> name  \* a lower-case name is left as it is

Lit(cs) == <<"lit", cs>>
In(S) == <<"in", S>>
Star(n) == <<"star", n>>
Plus(n) == <<"plus", n>>
Opt(n) == <<"opt", n>>
Grp(ns) == <<"seq", ns>>
B == <<"b">>
Word(cs) == << <<"word", cs>> >>

\* Multi-line delimiters (lines 127-138 and 278-279); None when not set.
\* The C-style comment start set for every language.
ml_comment_start_CStyle(lang) == <<"/", "*">>

ml_comment_start(lang) ==
  IF lang = "html" THEN <<"<", "!", "-", "-">>
  ELSE IF lang \in {"c++", "c#", "javascript", "css"} THEN <<"/", "*">>
  ELSE None

ml_comment_end(lang) ==
  IF lang = "html" THEN <<"-", "-", ">">>
  ELSE IF lang \in {"c++", "c#", "javascript", "css"} THEN <<"*", "/">>
  ELSE None

ml_string_dq_start(lang) ==
  IF lang = "python" THEN <<"\"", "\"", "\"">> ELSE None

\* The double-quote construct left without an end delimiter.
ml_string_dq_end_Unset(lang) == None

ml_string_dq_end(lang) ==
  IF lang = "python" THEN <<"\"", "\"", "\"">> ELSE None

ml_string_sq_start(lang) ==
  IF lang = "python" THEN <<"'", "'", "'">> ELSE None

\* The single-quote construct left without an end delimiter.
ml_string_sq_end_Unset(lang) == None

ml_string_sq_end(lang) ==
  IF lang = "python" THEN <<"'", "'", "'">> ELSE None

\* "...": a double quote, any characters (lazy), a double quote that no
\* backslash precedes.
dq_string_rule ==
  << << Lit(<<"\"">>), <<"lazy", <<"any">>>>, <<"nlb", {"\\"}>>, Lit(<<"\"">>) >>,
     "string_format" >>

sq_string_rule ==
  << << Lit(<<"'">>), <<"lazy", <<"any">>>>, <<"nlb", {"\\"}>>, Lit(<<"'">>) >>,
     "string_format" >>

\* C++ raw strings: R"( then any characters that do not start a ")", then )"
raw_string_rule ==
  << << Lit(<<"R", "\"", "(">>),
        Star(Grp(<< <<"nla", <<Lit(<<")">>)>>>>, <<"any">> >>)),
        Lit(<<")", "\"">>) >>,
     "string_format" >>

\* Lines 112-115 and 150-156 (the template-literal rule of javascript is
\* outside the languages of LanguageNames).
string_rules(lang) ==
  <<dq_string_rule, sq_string_rule>>
  \o (IF lang = "c++" THEN <<raw_string_rule>> ELSE <<>>)

\* Decimal, hexadecimal, binary and octal numbers (lines 116-119).
number_rules ==
  << << << B, Plus(In(Digits)), Opt(Lit(<<".">>)), Star(In(Digits)),
           Opt(Grp(<<In({"e", "E"}), Opt(In({"-", "+"})), Plus(In(Digits))>>)),
           B >>,
        "number_format" >>,
     << << B, Lit(<<"0">>), In({"x", "X"}), Plus(In(HexChars)), B >>,
        "number_format" >>,
     << << B, Lit(<<"0">>), In({"b", "B"}), Plus(In({"0", "1"})), B >>,
        "number_format" >>,
     << << B, Lit(<<"0">>), Opt(In({"o", "O"})),
           Plus(In({"0", "1", "2", "3", "4", "5", "6", "7"})), B >>,
        "number_format" >> >>

ops == {"=", "+", "-", "*", "/", "%", "<", ">", "&", "|", "^", "~", "!", ":",
        ".", "?", ",", ";"}

braces == {"(", ")", "{", "}", "[", "]"}

operator_brace_rules ==
  << << <<In(ops)>>, "operator_format" >>,
     << <<In(braces)>>, "brace_format" >> >>

\* Single-line comments (lines 141-146): the marker to the end of the block.
comment_rules(lang) ==
  (IF lang \in {"python", "markdown", "text"}
   THEN << << << Lit(<<"#">>), Star(<<"any">>) >>, "comment_format" >> >>
   ELSE <<>>)
  \o (IF lang \in {"c++", "c#", "javascript"}
      THEN << << << Lit(<<"/", "/">>), Star(<<"any">>) >>, "comment_format" >> >>
      ELSE <<>>)
  \o (IF lang = "sql"
      THEN << << << Lit(<<"-", "-">>), Star(<<"any">>) >>, "comment_format" >> >>
      ELSE <<>>)

\* \b\w+(?=\s*\()
function_call_rule ==
  << << B, Plus(In(WordChars)),
        <<"la", << Star(In(SpaceChars)), Lit(<<"(">>) >> >> >>,
     "function_format" >>

WordRules(words, format) == [i \in 1..Len(words) |-> <<Word(words[i]), format>>]

\* Python (lines 161-176).
py_keywords ==
  <<
     <<"a","n","d">>, <<"a","s">>, <<"a","s","s","e","r","t">>, <<"a","s","y","n","c">>,
     <<"a","w","a","i","t">>, <<"b","r","e","a","k">>, <<"c","l","a","s","s">>, <<"c","o","n","t","i","n","u","e">>,
     <<"d","e","f">>, <<"d","e","l">>, <<"e","l","i","f">>, <<"e","l","s","e">>,
     <<"e","x","c","e","p","t">>, <<"F","a","l","s","e">>, <<"f","i","n","a","l","l","y">>, <<"f","o","r">>,
     <<"f","r","o","m">>, <<"g","l","o","b","a","l">>, <<"i","f">>, <<"i","m","p","o","r","t">>,
     <<"i","n">>, <<"i","s">>, <<"l","a","m","b","d","a">>, <<"N","o","n","e">>,
     <<"n","o","n","l","o","c","a","l">>, <<"n","o","t">>, <<"o","r">>, <<"p","a","s","s">>,
     <<"r","a","i","s","e">>, <<"r","e","t","u","r","n">>, <<"T","r","u","e">>, <<"t","r","y">>,
     <<"w","h","i","l","e">>, <<"w","i","t","h">>, <<"y","i","e","l","d">>
  >>

py_builtins ==
  <<
     <<"i","n","t">>, <<"s","t","r">>, <<"f","l","o","a","t">>, <<"l","i","s","t">>,
     <<"d","i","c","t">>, <<"t","u","p","l","e">>, <<"s","e","t">>, <<"b","o","o","l">>,
     <<"p","r","i","n","t">>, <<"l","e","n">>, <<"r","a","n","g","e">>, <<"o","p","e","n">>,
     <<"s","u","p","e","r">>, <<"i","s","i","n","s","t","a","n","c","e">>, <<"t","y","p","e">>
  >>

\* The Python table with the keyword rules moved to the front.
python_rules_KeywordsFirst ==
  WordRules(py_keywords, "keyword_format")
  \o << << << B, Lit(<<"d", "e", "f">>), Plus(In(SpaceChars)), Plus(In(WordChars)) >>,
           "function_format" >>,
        << << B, Lit(<<"c", "l", "a", "s", "s">>), Plus(In(SpaceChars)),
              Plus(In(WordChars)) >>,
           "class_type_format" >>,
        << << <<"bol">>, Star(In(SpaceChars)), Lit(<<"@">>), Plus(In(WordChars)) >>,
           "decorator_format" >>,
        << Word(<<"s", "e", "l", "f">>), "self_format" >>,
        << Word(<<"c", "l", "s">>), "self_format" >>,
        function_call_rule >>
  \o WordRules(py_builtins, "builtin_format")

python_rules ==
  << << << B, Lit(<<"d", "e", "f">>), Plus(In(SpaceChars)), Plus(In(WordChars)) >>,
        "function_format" >>,
     << << B, Lit(<<"c", "l", "a", "s", "s">>), Plus(In(SpaceChars)),
           Plus(In(WordChars)) >>,
        "class_type_format" >>,
     << << <<"bol">>, Star(In(SpaceChars)), Lit(<<"@">>), Plus(In(WordChars)) >>,
        "decorator_format" >>,
     << Word(<<"s", "e", "l", "f">>), "self_format" >>,
     << Word(<<"c", "l", "s">>), "self_format" >>,
     function_call_rule >>
  \o WordRules(py_builtins, "builtin_format")
  \o WordRules(py_keywords, "keyword_format")

\* C++ (lines 179-213).
cpp_types ==
  <<
     <<"i","n","t">>, <<"f","l","o","a","t">>, <<"d","o","u","b","l","e">>, <<"c","h","a","r">>,
     <<"v","o","i","d">>, <<"b","o","o","l">>, <<"s","t","r","i","n","g">>, <<"v","e","c","t","o","r">>,
     <<"m","a","p">>, <<"s","e","t">>, <<"p","a","i","r">>, <<"t","u","p","l","e">>,
     <<"i","s","t","r","e","a","m">>, <<"o","s","t","r","e","a","m">>, <<"f","s","t","r","e","a","m">>, <<"s","i","z","e","_","t">>
  >>

cpp_keywords ==
  <<
     <<"a","l","i","g","n","a","s">>, <<"a","l","i","g","n","o","f">>, <<"a","n","d">>, <<"a","n","d","_","e","q">>,
     <<"a","s","m">>, <<"a","t","o","m","i","c","_","c","a","n","c","e","l">>, <<"a","t","o","m","i","c","_","c","o","m","m","i","t">>, <<"a","t","o","m","i","c","_","n","o","e","x","c","e","p","t">>,
     <<"a","u","t","o">>, <<"b","i","t","a","n","d">>, <<"b","i","t","o","r">>, <<"b","o","o","l">>,
     <<"b","r","e","a","k">>, <<"c","a","s","e">>, <<"c","a","t","c","h">>, <<"c","h","a","r">>,
     <<"c","h","a","r","8","_","t">>, <<"c","h","a","r","1","6","_","t">>, <<"c","h","a","r","3","2","_","t">>, <<"c","l","a","s","s">>,
     <<"c","o","m","p","l">>, <<"c","o","n","c","e","p","t">>, <<"c","o","n","s","t">>, <<"c","o","n","s","t","e","v","a","l">>,
     <<"c","o","n","s","t","e","x","p","r">>, <<"c","o","n","s","t","i","n","i","t">>, <<"c","o","n","s","t","_","c","a","s","t">>, <<"c","o","n","t","i","n","u","e">>,
     <<"c","o","_","a","w","a","i","t">>, <<"c","o","_","r","e","t","u","r","n">>, <<"c","o","_","y","i","e","l","d">>, <<"d","e","c","l","t","y","p","e">>,
     <<"d","e","f","a","u","l","t">>, <<"d","e","l","e","t","e">>, <<"d","o">>, <<"d","o","u","b","l","e">>,
     <<"d","y","n","a","m","i","c","_","c","a","s","t">>, <<"e","l","s","e">>, <<"e","n","u","m">>, <<"e","x","p","l","i","c","i","t">>,
     <<"e","x","p","o","r","t">>, <<"e","x","t","e","r","n">>, <<"f","a","l","s","e">>, <<"f","l","o","a","t">>,
     <<"f","o","r">>, <<"f","r","i","e","n","d">>, <<"g","o","t","o">>, <<"i","f">>,
     <<"i","n","l","i","n","e">>, <<"i","n","t">>, <<"l","o","n","g">>, <<"m","u","t","a","b","l","e">>,
     <<"n","a","m","e","s","p","a","c","e">>, <<"n","e","w">>, <<"n","o","e","x","c","e","p","t">>, <<"n","o","t">>,
     <<"n","o","t","_","e","q">>, <<"n","u","l","l","p","t","r">>, <<"o","p","e","r","a","t","o","r">>, <<"o","r">>,
     <<"o","r","_","e","q">>, <<"p","r","i","v","a","t","e">>, <<"p","r","o","t","e","c","t","e","d">>, <<"p","u","b","l","i","c">>,
     <<"r","e","f","l","e","x","p","r">>, <<"r","e","g","i","s","t","e","r">>, <<"r","e","i","n","t","e","r","p","r","e","t","_","c","a","s","t">>, <<"r","e","q","u","i","r","e","s">>,
     <<"r","e","t","u","r","n">>, <<"s","h","o","r","t">>, <<"s","i","g","n","e","d">>, <<"s","i","z","e","o","f">>,
     <<"s","t","a","t","i","c">>, <<"s","t","a","t","i","c","_","a","s","s","e","r","t">>, <<"s","t","a","t","i","c","_","c","a","s","t">>, <<"s","t","r","u","c","t">>,
     <<"s","w","i","t","c","h">>, <<"s","y","n","c","h","r","o","n","i","z","e","d">>, <<"t","e","m","p","l","a","t","e">>, <<"t","h","i","s">>,
     <<"t","h","r","e","a","d","_","l","o","c","a","l">>, <<"t","h","r","o","w">>, <<"t","r","u","e">>, <<"t","r","y">>,
     <<"t","y","p","e","d","e","f">>, <<"t","y","p","e","i","d">>, <<"t","y","p","e","n","a","m","e">>, <<"u","n","i","o","n">>,
     <<"u","n","s","i","g","n","e","d">>, <<"u","s","i","n","g">>, <<"v","i","r","t","u","a","l">>, <<"v","o","i","d">>,
     <<"v","o","l","a","t","i","l","e">>, <<"w","c","h","a","r","_","t">>, <<"w","h","i","l","e">>, <<"x","o","r">>,
     <<"x","o","r","_","e","q">>
  >>

cpp_rules ==
  [i \in 1..Len(cpp_types) |->
     << << B, Opt(Lit(<<"s", "t", "d", ":", ":">>)), Lit(cpp_types[i]), B >>,
        "cpp_type_format" >>]
  \o << << << B, <<"alt", << <<Lit(<<"t", "r", "u", "e">>)>>,
                            <<Lit(<<"f", "a", "l", "s", "e">>)>>,
                            <<Lit(<<"n", "u", "l", "l", "p", "t", "r">>)>> >> >>,
              B >>,
           "cpp_literal_format" >>,
        << << B, <<"alt", << <<Lit(<<"c", "l", "a", "s", "s">>)>>,
                            <<Lit(<<"s", "t", "r", "u", "c", "t">>)>> >> >>,
              Plus(In(SpaceChars)), Plus(In(WordChars)) >>,
           "class_type_format" >>,
        function_call_rule,
        << << <<"bol">>, Star(In(SpaceChars)), Lit(<<"#">>), Plus(In(WordChars)),
              Star(<<"any">>) >>,
           "preprocessor_format" >>,
        << Word(<<"t", "h", "i", "s">>), "self_format" >>,
        function_call_rule >>
  \o WordRules(cpp_keywords, "keyword_format")

\* The rules added by the language's own section; a name outside the
\* if/elif chain (text, an unknown language) adds none.
language_rules(lang) ==
  CASE lang = "python" -> python_rules
    [] lang = "c++" -> cpp_rules
    [] OTHER -> <<>>

\* self.highlighting_rules in the order the rules are appended.
rules_of(lang) ==
  string_rules(lang) \o number_rules \o operator_brace_rules
  \o comment_rules(lang) \o string_rules(lang) \o language_rules(lang)

rules_python == rules_of("python")
rules_cpp == rules_of("c++")
rules_text == rules_of("text")
rules_cobol == rules_of("cobol")

highlighting_rules(lang) ==
  CASE lang = "python" -> rules_python
    [] lang = "c++" -> rules_cpp
    [] lang = "text" -> rules_text
    [] OTHER -> rules_cobol

(***************************************************************************)
(* The host editor's side of a block: its user state and the setFormat     *)
(* calls made on it.                                                       *)
(***************************************************************************)
setFormat(blk, start, count, format) ==
  [blk EXCEPT !.calls = Append(@, <<start, count, format>>)]

setCurrentBlockState(blk, state) == [blk EXCEPT !.state = state]

\* Painting in which the first call that reaches a character keeps it.
FinalFormats_FirstWins(cs, n) ==
  [i \in 1..n |->
     LET hits == {j \in 1..Len(cs) :
                    /\ cs[j][1] >= 0
                    /\ cs[j][1] <= i - 1
                    /\ i - 1 < cs[j][1] + cs[j][2]}
     IN IF hits = {} THEN "none"
        ELSE cs[CHOOSE j \in hits : \A h \in hits : j <= h][3]]

\* The format each character of a block of length n ends with: setFormat
\* paints [start, start + count) cut to the block, and ignores a start
\* outside the block, later calls painting over earlier ones.
FinalFormats(cs, n) ==
  [i \in 1..n |->
     LET hits == {j \in 1..Len(cs) :
                    /\ cs[j][1] >= 0
                    /\ cs[j][1] <= i - 1
                    /\ i - 1 < cs[j][1] + cs[j][2]}
     IN IF hits = {} THEN "none"
        ELSE cs[CHOOSE j \in hits : \A h \in hits : h <= j][3]]

(***************************************************************************)
(* highlightBlock (lines 325-467).                                         *)
(***************************************************************************)
\* The end delimiter and the format of a multi-line state.
ml_end_regex(lang, state) ==
  CASE state = STATE_ML_COMMENT -> ml_comment_end(lang)
    [] state = STATE_ML_STRING_DQ -> ml_string_dq_end(lang)
    [] state = STATE_ML_STRING_SQ -> ml_string_sq_end(lang)
    [] OTHER -> None

ml_format(state) ==
  IF state \in {STATE_ML_STRING_DQ, STATE_ML_STRING_SQ}
  THEN "string_format" ELSE "comment_format"

\* Offset of the first occurrence of a delimiter at or after from, or -1.
Find(delim, t, from) == FirstMatch(<<Lit(delim)>>, t, from)[1]

\* Lines 380-413: the earliest start among the comment, double-quote and
\* single-quote delimiters, checked in that order; a later one replaces an
\* earlier one only when it starts strictly before it.
CheckStart_LastFound(acc, delim, state, t, start_index) ==
  LET idx == IF delim = None THEN -1 ELSE Find(delim, t, start_index)
  IN IF idx # -1
     THEN [next_ml_start |-> idx, matched_state |-> state,
           match_len |-> Len(delim)]
     ELSE acc

CheckStart(acc, delim, state, t, start_index) ==
  LET idx == IF delim = None THEN -1 ELSE Find(delim, t, start_index)
  IN IF idx # -1 /\ (acc.next_ml_start = -1 \/ idx < acc.next_ml_start)
     THEN [next_ml_start |-> idx, matched_state |-> state,
           match_len |-> Len(delim)]
     ELSE acc

\* The search that never looks for the start of a comment.
EarliestStart_NoComment(lang, t, start_index) ==
  LET a0 == [next_ml_start |-> -1, matched_state |-> STATE_NORMAL, match_len |-> 0]
      a2 == CheckStart(a0, ml_string_dq_start(lang), STATE_ML_STRING_DQ, t, start_index)
  IN CheckStart(a2, ml_string_sq_start(lang), STATE_ML_STRING_SQ, t, start_index)

EarliestStart(lang, t, start_index) ==
  LET a0 == [next_ml_start |-> -1, matched_state |-> STATE_NORMAL, match_len |-> 0]
      a1 == CheckStart(a0, ml_comment_start(lang), STATE_ML_COMMENT, t, start_index)
      a2 == CheckStart(a1, ml_string_dq_start(lang), STATE_ML_STRING_DQ, t, start_index)
  IN CheckStart(a2, ml_string_sq_start(lang), STATE_ML_STRING_SQ, t, start_index)

\* The scan running only when text is left after the continuation.
ShouldScan_TextLeft(start_index, n) == start_index < n

\* Line 379: the scan runs when text is left after the continuation, or
\* the text is empty.
ShouldScan(start_index, n) == start_index < n \/ n = 0

\* A match reported at its offset in sub_text.
RuleOffset_Relative(start_index, capturedStart) == capturedStart

\* Line 424: a match of sub_text is reported at start_index + capturedStart.
RuleOffset(start_index, capturedStart) == start_index + capturedStart

\* The end delimiter searched from the start of the start delimiter.
EndSearchFrom_Start(next_ml_start, match_len) == next_ml_start

\* Line 445: the end delimiter is searched after the start delimiter.
EndSearchFrom(next_ml_start, match_len) == next_ml_start + match_len

\* Line 457: the text the recursive call is given, text[start_index:].
TailText(t, start_index) == SubSeq(t, start_index + 1, Len(t))

\* The final state never stored, and stored whatever the previous state.
SetFinalState_Never(prev_state, blk, current_state) == blk

SetFinalState_Always(prev_state, blk, current_state) ==
  [blk EXCEPT !.state = current_state]

\* Lines 466-467: the final state is stored only when the previous block's
\* state is STATE_NORMAL.
SetFinalState(prev_state, blk, current_state) ==
  IF prev_state = STATE_NORMAL
  THEN setCurrentBlockState(blk, current_state)
  ELSE blk

\* Lines 419-424: every rule in table order, every match of it in sub_text,
\* as setFormat(start_index + capturedStart, capturedLength, format).
RECURSIVE RuleCallsIn(_, _, _, _, _)
RuleCallsIn(rules, lo, hi, sub_text, start_index) ==
  IF lo > hi THEN <<>>
  ELSE IF lo = hi
  THEN LET ms == GlobalMatch(rules[lo][1], sub_text)
       IN [j \in 1..Len(ms) |->
             <<RuleOffset(start_index, ms[j][1]), ms[j][2], rules[lo][2]>>]
  ELSE LET mid == (lo + hi) \div 2
       IN RuleCallsIn(rules, lo, mid, sub_text, start_index)
          \o RuleCallsIn(rules, mid + 1, hi, sub_text, start_index)

RuleCalls(rules, sub_text, start_index) ==
  RuleCallsIn(rules, 1, Len(rules), sub_text, start_index)

\* One invocation on the text t; previous_state_ is previousBlockState(),
\* blk the current block.  The recursive call of line 457 runs on the tail
\* of the text, for the same block.
RECURSIVE highlightBlockRec(_, _, _, _)

\* Lines 338-346 (352-358, 366-372): the continuation, its end delimiter
\* found at end_index (-1: not found) with length end_len.  The outcome is
\* the block, current_state and start_index.
ContinuationAt(end_index, end_len, t, previous_state_, blk) ==
  IF end_index = -1
  THEN [blk |-> setCurrentBlockState(
                  setFormat(blk, 0, Len(t), ml_format(previous_state_)),
                  previous_state_),
        current_state |-> previous_state_,
        start_index |-> 0]
  ELSE [blk |-> setCurrentBlockState(
                  setFormat(blk, 0, end_index + end_len, ml_format(previous_state_)),
                  STATE_NORMAL),
        current_state |-> STATE_NORMAL,
        start_index |-> end_index + end_len]

\* Lines 329-375: a continuation is handled when the previous state is a
\* multi-line state whose end delimiter is set.
Continuation(lang, t, previous_state_, blk) ==
  IF previous_state_ = STATE_NORMAL \/ ml_end_regex(lang, previous_state_) = None
  THEN [blk |-> blk, current_state |-> STATE_NORMAL, start_index |-> 0]
  ELSE ContinuationAt(Find(ml_end_regex(lang, previous_state_), t, 0),
                      Len(ml_end_regex(lang, previous_state_)),
                      t, previous_state_, blk)

\* The rules applied to the text from start_index to the end of the line.
ApplyRules_ToLineEnd(lang, t, blk, start_index, process_end_index) ==
  IF SubSeq(t, start_index + 1, Len(t)) = <<>> THEN blk
  ELSE [blk EXCEPT !.calls =
          @ \o RuleCalls(highlighting_rules(lang),
                         SubSeq(t, start_index + 1, Len(t)),
                         start_index)]

\* Lines 415-424: the rules on sub_text = text[start_index:process_end_index].
ApplyRules(lang, t, blk, start_index, process_end_index) ==
  IF SubSeq(t, start_index + 1, process_end_index) = <<>> THEN blk
  ELSE [blk EXCEPT !.calls =
          @ \o RuleCalls(highlighting_rules(lang),
                         SubSeq(t, start_index + 1, process_end_index),
                         start_index)]

\* Lines 447-462: a construct that starts at next_ml_start, its end
\* delimiter end_delim found at end_match (-1: not found).  The outcome is
\* the block, current_state, and whether highlightBlock is called again
\* (line 457) and on which tail of the text.
HandleStartAt(lang, t, previous_state_, blk, s, end_delim, end_match) ==
  IF end_match # -1
  THEN \* starts and ends in this block: format it, re-run on the tail
       [blk |-> setFormat(blk, s.next_ml_start,
                          (end_match + Len(end_delim)) - s.next_ml_start,
                          ml_format(s.matched_state)),
        current_state |-> STATE_NORMAL,
        recurse |-> TRUE,
        tail |-> TailText(t, end_match + Len(end_delim))]
  ELSE [blk |-> setFormat(blk, s.next_ml_start, Len(t) - s.next_ml_start,
                          ml_format(s.matched_state)),
        current_state |-> s.matched_state,
        recurse |-> FALSE,
        tail |-> <<>>]

\* Lines 427-445: the end delimiter of the construct that starts, searched
\* after its start delimiter.
HandleStart(lang, t, previous_state_, blk, s, end_delim) ==
  HandleStartAt(lang, t, previous_state_, blk, s, end_delim,
                IF end_delim # None
                THEN Find(end_delim, t, EndSearchFrom(s.next_ml_start, s.match_len))
                ELSE -1)

\* Lines 415-462, c the continuation's outcome and s the earliest start.
ScanWith(lang, t, previous_state_, c, s) ==
  IF s.next_ml_start = -1
  THEN [blk |-> ApplyRules(lang, t, c.blk, c.start_index, Len(t)),
        current_state |-> c.current_state,
        recurse |-> FALSE,
        tail |-> <<>>]
  ELSE HandleStart(lang, t, previous_state_,
                   ApplyRules(lang, t, c.blk, c.start_index, s.next_ml_start),
                   s, ml_end_regex(lang, s.matched_state))

\* The state the scan ended in stored whatever the previous state is.
StoreFinalState_Always(previous_state_, r) ==
  setCurrentBlockState(r.blk, r.current_state)

\* Lines 464-467.
StoreFinalState(previous_state_, r) ==
  SetFinalState(previous_state_, r.blk, r.current_state)

\* The outcome r of a scan that ran (the body of the if of line 379).
Scanned(r) ==
  [blk |-> r.blk, current_state |-> r.current_state, recurse |-> r.recurse,
   tail |-> r.tail, scanned |-> TRUE]

\* Lines 377-462, c the continuation's outcome: one invocation up to its
\* recursive call, or up to the final state when it makes none.
Scan(lang, t, previous_state_, c) ==
  IF ~ShouldScan(c.start_index, Len(t))
  THEN [blk |-> c.blk, current_state |-> c.current_state, recurse |-> FALSE,
        tail |-> <<>>, scanned |-> FALSE]
  ELSE Scanned(ScanWith(lang, t, previous_state_, c,
                        EarliestStart(lang, t, c.start_index)))

\* Lines 325-462.
Invocation(lang, t, previous_state_, blk) ==
  Scan(lang, t, previous_state_, Continuation(lang, t, previous_state_, blk))

\* Lines 457-467: the recursive call when there is one, then the final
\* state, both inside the if of line 379.
Resume(lang, previous_state_, r) ==
  IF ~r.scanned THEN r.blk
  ELSE StoreFinalState(
         previous_state_,
         [blk |-> IF r.recurse
                  THEN highlightBlockRec(lang, r.tail, previous_state_, r.blk)
                  ELSE r.blk,
          current_state |-> r.current_state])

highlightBlockRec(lang, t, previous_state_, blk) ==
  Resume(lang, previous_state_, Invocation(lang, t, previous_state_, blk))

\* highlightBlock reading the block's own state as the previous state.
highlightBlock_OwnState(name, t, prev_state, cur_state) ==
  highlightBlockRec(lower(name), t, cur_state,
                    [state |-> cur_state, calls |-> <<>>])

\* highlightBlock as the host calls it on a block whose user state is
\* cur_state and whose predecessor's user state is prev_state: the block's
\* new user state and the setFormat calls, in order.
highlightBlock(name, t, prev_state, cur_state) ==
  highlightBlockRec(lower(name), t, prev_state,
                    [state |-> cur_state, calls |-> <<>>])

(***************************************************************************)
(* Construction of the highlighter: __init__ (lines 25-35), _load_colors   *)
(* (lines 37-67) and the delimiters and formats of                         *)
(* _setup_delimiters_and_rules (lines 69-138).                             *)
(***************************************************************************)
\* The configurable colour keys and their built-in values (lines 15-21).
DEFAULT_COLORS ==
  [keyword |-> "#C586C0", comment |-> "#6A9955", string |-> "#CE9178",
   number |-> "#B5CEA8", function |-> "#DCDCAA", class_type |-> "#4EC9B0",
   operator_brace |-> "#D4D4D4", preprocessor_decorator |-> "#808080",
   tag |-> "#569CD6", attribute |-> "#9CDCFE", selector |-> "#D7BA7D",
   property |-> "#9CDCFE"]

ColorKeys == DOMAIN DEFAULT_COLORS

\* The strings a stored syntax_colors entry holds in the model: a colour
\* name that is no key's built-in value, and a string that names no colour.
StoredValues == {"#FF0000", "notacolor"}

\* The strings of the model that name a colour.
IsColorName(name) ==
  name = "#FF0000" \/ \E key \in ColorKeys : name = DEFAULT_COLORS[key]

\* QColor(name): the named colour, or the invalid colour (whose name() is
\* "#000000") when the string names no colour.
QColor(name) ==
  IF IsColorName(name) THEN [valid |-> TRUE, name |-> name]
  ELSE [valid |-> FALSE, name |-> "#000000"]

\* QSettings.value(key, default): the stored entry, the default when no
\* entry is stored.  stored maps the keys that have an entry to its string.
value(stored, key, default) ==
  IF key \in DOMAIN stored THEN stored[key] ELSE default

\* No syntax_colors entry stored.
NothingStored == [key \in {} |-> ""]

\* The most entries stored at once in the model.
MaxStored == 1

Settings ==
  UNION {[keys -> StoredValues] :
           keys \in {k \in SUBSET ColorKeys : Cardinality(k) <= MaxStored}}

\* One line of _load_colors: QColor(self.settings.value(key, default)).
LoadColor(stored, key) == QColor(value(stored, key, DEFAULT_COLORS[key]))

\* _load_colors (lines 37-67): the colour attributes of the highlighter.
load_colors(stored) ==
  [keyword_color |-> LoadColor(stored, "keyword"),
   comment_color |-> LoadColor(stored, "comment"),
   string_color |-> LoadColor(stored, "string"),
   number_color |-> LoadColor(stored, "number"),
   function_color |-> LoadColor(stored, "function"),
   class_type_color |-> LoadColor(stored, "class_type"),
   operator_color |-> LoadColor(stored, "operator_brace"),
   brace_color |-> LoadColor(stored, "operator_brace"),
   preprocessor_color |-> LoadColor(stored, "preprocessor_decorator"),
   decorator_color |-> LoadColor(stored, "preprocessor_decorator"),
   tag_color |-> LoadColor(stored, "tag"),
   attribute_color |-> LoadColor(stored, "attribute"),
   selector_color |-> LoadColor(stored, "selector"),
   property_color |-> LoadColor(stored, "property"),
   value_color |-> LoadColor(stored, "string"),
   css_value_color |-> LoadColor(stored, "string"),
   md_header_color |-> LoadColor(stored, "tag"),
   md_emphasis_color |-> LoadColor(stored, "keyword"),
   md_code_color |-> LoadColor(stored, "number"),
   cpp_type_color |-> LoadColor(stored, "class_type"),
   cpp_literal_color |-> LoadColor(stored, "number"),
   self_format_color |-> LoadColor(stored, "attribute"),
   builtin_format_color |-> LoadColor(stored, "class_type"),
   regex_format_color |-> LoadColor(stored, "string")]

\* Lines 80-112: the colour attribute each format takes its foreground
\* from, for the formats of the model's rules.
ForegroundOf(format) ==
  CASE format = "keyword_format" -> "keyword_color"
    [] format = "operator_format" -> "operator_color"
    [] format = "brace_format" -> "brace_color"
    [] format = "comment_format" -> "comment_color"
    [] format = "string_format" -> "string_color"
    [] format = "number_format" -> "number_color"
    [] format = "function_format" -> "function_color"
    [] format = "class_type_format" -> "class_type_color"
    [] format = "decorator_format" -> "decorator_color"
    [] format = "preprocessor_format" -> "preprocessor_color"
    [] format = "self_format" -> "self_format_color"
    [] format = "builtin_format" -> "builtin_format_color"
    [] format = "cpp_type_format" -> "cpp_type_color"
    [] format = "cpp_literal_format" -> "cpp_literal_color"

\* A highlighter that is built for plain text once a colour is stored.
SyntaxHighlighter_PlainWhenStored(name, stored) ==
  [language |-> IF stored = NothingStored THEN lower(name) ELSE "text",
   colors |-> load_colors(stored),
   ml_comment_start |-> ml_comment_start(lower(name)),
   ml_comment_end |-> ml_comment_end(lower(name)),
   ml_string_dq_start |-> ml_string_dq_start(lower(name)),
   ml_string_dq_end |-> ml_string_dq_end(lower(name)),
   ml_string_sq_start |-> ml_string_sq_start(lower(name)),
   ml_string_sq_end |-> ml_string_sq_end(lower(name))]

\* __init__ (lines 25-35): the fields of a highlighter built for the
\* language name with the stored colours.
SyntaxHighlighter(name, stored) ==
  [language |-> lower(name),
   colors |-> load_colors(stored),
   ml_comment_start |-> ml_comment_start(lower(name)),
   ml_comment_end |-> ml_comment_end(lower(name)),
   ml_string_dq_start |-> ml_string_dq_start(lower(name)),
   ml_string_dq_end |-> ml_string_dq_end(lower(name)),
   ml_string_sq_start |-> ml_string_sq_start(lower(name)),
   ml_string_sq_end |-> ml_string_sq_end(lower(name))]

\* A highlighter built with no colour stored.
DefaultBuild ==
  /\ settings = NothingStored
  /\ highlighter = SyntaxHighlighter(language, NothingStored)

(***************************************************************************)
(* Block texts of the model: up to MaxFrags fragments of the language's    *)
(* vocabulary, concatenated.                                               *)
(***************************************************************************)
\* The languages whose blocks are highlighted in the model: two with
\* multi-line constructs, and two outside the language chain, one of them not
\* offered by the editor.
Languages == {"C++", "Python", "Text", "Cobol"}

\* The languages of the documents of SpecDoc.
DocLanguages == {"C++", "Python"}

\* Short fragments, and longer phrases that hold whole constructs.
Frags(name) ==
  CASE name = "C++" ->
         {<<"/", "*">>, <<"*", "/">>, <<"\"">>, <<"i", "n", "t">>}
    [] name = "Python" ->
         {<<"\"", "\"", "\"">>, <<"'", "'", "'">>, <<"c", "l", "a", "s", "s">>,
          <<" ">>}
    [] OTHER -> {<<"/", "*">>, <<"\"", "\"", "\"">>, <<"1">>}

Phrases(name) ==
  CASE name = "C++" ->
         {<<"/", "*", "c", "*", "/">>, <<"\"", "s", "\"">>, <<"/", "*">>, <<"/">>}
    [] name = "Python" ->
         {<<"'", "'", "'", "a", "'", "'", "'">>, <<"\"", "\"", "\"">>,
          <<"c", "l", "a", "s", "s", " ", "F", "o", "o">>}
    [] OTHER -> {<<"*", "/">>, <<"'", "'", "'">>, <<"\"", "a", "\"">>}

DocFrags(name) ==
  CASE name = "C++" ->
         {<<"/", "*">>, <<"*", "/">>, <<"/", "*", "c", "*", "/", "1">>}
    [] name = "Python" ->
         {<<"\"", "\"", "\"">>, <<"'", "'", "'">>,
          <<"'", "'", "'", "a", "'", "'", "'", "1">>}

RECURSIVE Concat(_)
Concat(fs) == IF fs = <<>> THEN <<>> ELSE Head(fs) \o Concat(Tail(fs))

TextsOf(frags, k) == {Concat(fs) : fs \in UNION {[1..j -> frags] : j \in 0..k}}

Texts(name) ==
  TextsOf(Frags(name), MaxFrags) \cup TextsOf(Phrases(name), MaxFrags)

Lines(name) == TextsOf(DocFrags(name), MaxLineFrags)

Docs(name) == UNION {[1..k -> Lines(name)] : k \in 1..MaxBlocks}

(***************************************************************************)
(* Spec: one block is highlighted.  The inputs are the highlighter's       *)
(* language, the block's text, the predecessor's state and the state the   *)
(* block holds from an earlier highlighting.                               *)
(***************************************************************************)
NoDoc ==
  /\ doc = <<>>
  /\ doc_states = <<>>
  /\ doc_calls = <<>>
  /\ pass = "first"
  /\ cursor = 0
  /\ snap = [states |-> <<>>, calls |-> <<>>]

\* No highlightBlock invocation is in progress.
NoCall ==
  /\ stack = <<>>
  /\ tail_at = 0

\* The first entry of the tag filter combo box, as its characters.
AllTags == <<"A", "l", "l", " ", "T", "a", "g", "s">>

\* The first entry of the language filter combo box.
AllLanguages == "All Languages"

\* No database function was called yet.
NothingReturned == [fn |-> "", args |-> None, value |-> None]

\* An empty table and a window with nothing selected, nothing typed and no
\* filter set.
NoStore ==
  /\ snippets = {}
  /\ clock = 0
  /\ log = <<>>
  /\ returned = NothingReturned
  /\ current_snippet_id = None
  /\ tag_filter = AllTags
  /\ list_items = <<>>
  /\ title_input = <<>>
  /\ tags_input = <<>>
  /\ shown = ""
  /\ search_input = <<>>
  /\ selected_item = None

Init ==
  /\ language \in Languages
  /\ text \in Texts(language)
  /\ previous_state \in States
  /\ block_state \in States
  /\ calls = <<>>
  /\ pc = "ready"
  /\ NoDoc
  /\ NoCall
  /\ NoStore
  /\ DefaultBuild

Highlight ==
  /\ pc = "ready"
  /\ LET r == highlightBlock(language, text, previous_state, block_state)
     IN /\ block_state' = r.state
        /\ calls' = r.calls
  /\ pc' = "done"
  /\ UNCHANGED <<language, text, previous_state>>
  /\ UNCHANGED docVars
  /\ UNCHANGED buildVars
  /\ UNCHANGED appVars
  /\ UNCHANGED callVars

Next == Highlight

Spec == Init /\ [][Next]_vars

(***************************************************************************)
(* SpecLine: one block of C++ text with line comments, string quotes and   *)
(* preprocessor directives is highlighted; the block was not highlighted   *)
(* before.                                                                 *)
(***************************************************************************)
LineFrags ==
  {<<"/", "*">>, <<"*", "/">>, <<"/", "/">>, <<"\"">>, <<"#", "d">>, <<" ">>}

LineTexts == TextsOf(LineFrags, MaxFrags)

InitLine ==
  /\ language = "C++"
  /\ text \in LineTexts
  /\ previous_state \in States
  /\ block_state = -1
  /\ calls = <<>>
  /\ pc = "ready"
  /\ NoDoc
  /\ NoCall
  /\ NoStore
  /\ DefaultBuild

NextLine == Highlight

SpecLine == InitLine /\ [][NextLine]_vars

(***************************************************************************)
(* SpecDoc: a document is highlighted from its first block on, each block  *)
(* with its predecessor's stored state (STATE_NORMAL before the first      *)
(* block), and then highlighted once more the same way, as rehighlight()   *)
(* does (snippet_manager.py, _update_highlighter).                         *)
(***************************************************************************)
InitDoc ==
  /\ language \in DocLanguages
  /\ doc \in Docs(language)
  /\ doc_states = [i \in 1..Len(doc) |-> STATE_NORMAL]
  /\ doc_calls = [i \in 1..Len(doc) |-> <<>>]
  /\ pass = "first"
  /\ cursor = 0
  /\ snap = [states |-> <<>>, calls |-> <<>>]
  /\ pc = "doc"
  /\ text = <<>>
  /\ previous_state = STATE_NORMAL
  /\ block_state = STATE_NORMAL
  /\ calls = <<>>
  /\ NoCall
  /\ NoStore
  /\ DefaultBuild

\* The first block taking its own stored state as the previous state.
previousBlockState_OwnForFirst(states, k) ==
  IF k = 1 THEN states[1] ELSE states[k - 1]

\* previousBlockState() of block number k (from 1): -1 for the first block.
previousBlockState(states, k) == IF k = 1 THEN -1 ELSE states[k - 1]

HighlightNextBlock ==
  /\ pc = "doc"
  /\ cursor < Len(doc)
  /\ LET k == cursor + 1
         r == highlightBlock(highlighter.language, doc[k],
                             previousBlockState(doc_states, k), doc_states[k])
     IN /\ doc_states' = [doc_states EXCEPT ![k] = r.state]
        /\ doc_calls' = [doc_calls EXCEPT ![k] = r.calls]
  /\ cursor' = cursor + 1
  /\ UNCHANGED <<doc, pass, snap, pc>>
  /\ UNCHANGED blockVars
  /\ UNCHANGED callVars
  /\ UNCHANGED buildVars
  /\ UNCHANGED appVars

Rehighlight ==
  /\ pc = "doc"
  /\ pass = "first"
  /\ cursor = Len(doc)
  /\ snap' = [states |-> doc_states, calls |-> doc_calls]
  /\ pass' = "again"
  /\ cursor' = 0
  /\ UNCHANGED <<doc, doc_states, doc_calls, pc>>
  /\ UNCHANGED blockVars
  /\ UNCHANGED callVars
  /\ UNCHANGED buildVars
  /\ UNCHANGED appVars

\* The settings as the preferences dialog leaves them in the model, with
\* the comment colour, which comment_format (line 83) takes, changed or
\* not.
ReloadedSettings == {s \in Settings : DOMAIN s \subseteq {"comment"}}

\* toPlainText() of the editor: the blocks joined by line breaks.
RECURSIVE toPlainText(_)
toPlainText(blocks) ==
  IF Len(blocks) = 1 THEN blocks[1]
  ELSE blocks[1] \o <<"\n">> \o toPlainText(Tail(blocks))

\* _apply_preferences (snippet_manager.py:410-420) after the preferences
\* dialog saved the settings: when a snippet is selected or the editor
\* holds text, a new highlighter is built, which reads the stored colours,
\* and the document is highlighted again from its first block on.
ReloadColors ==
  /\ pc = "doc"
  /\ pass = "first"
  /\ cursor = Len(doc)
  /\ \E snippet_selected \in BOOLEAN :
       snippet_selected \/ toPlainText(doc) # <<>>
  /\ settings' \in ReloadedSettings
  /\ highlighter' = SyntaxHighlighter(language, settings')
  /\ snap' = [states |-> doc_states, calls |-> doc_calls]
  /\ pass' = "reload"
  /\ cursor' = 0
  /\ UNCHANGED <<doc, doc_states, doc_calls, pc>>
  /\ UNCHANGED blockVars
  /\ UNCHANGED callVars
  /\ UNCHANGED appVars

NextDoc == HighlightNextBlock \/ Rehighlight

SpecDoc == InitDoc /\ [][NextDoc]_vars

(***************************************************************************)
(* SpecReload: a document is highlighted from its first block on by a      *)
(* highlighter built with no colour stored; then the preferences are       *)
(* applied, and the document is highlighted again by a new highlighter     *)
(* built with the colours stored by then (snippet_manager.py,              *)
(* _apply_preferences).                                                    *)
(***************************************************************************)
NextReload == HighlightNextBlock \/ ReloadColors

SpecReload == InitDoc /\ [][NextReload]_vars

(***************************************************************************)
(* SpecLang: a document is highlighted from its first block on; then the   *)
(* language selected in the editor changes, and a new highlighter built    *)
(* for the new language highlights the document again from its first       *)
(* block on (snippet_manager.py:497-498, _update_highlighter), any number  *)
(* of times.                                                               *)
(***************************************************************************)
\* The languages selected in the model: two with different multi-line
\* constructs and one with none.
LangLanguages == {"C++", "Python", "Text"}

\* Lines made of the delimiters of both languages' constructs.
LangFrags == {<<"/", "*">>, <<"*", "/">>, <<"\"", "\"", "\"">>}

LangDocs ==
  UNION {[1..k -> TextsOf(LangFrags, MaxLineFrags)] : k \in 1..MaxBlocks}

InitLang ==
  /\ language \in LangLanguages
  /\ doc \in LangDocs
  /\ doc_states = [i \in 1..Len(doc) |-> STATE_NORMAL]
  /\ doc_calls = [i \in 1..Len(doc) |-> <<>>]
  /\ pass = "first"
  /\ cursor = 0
  /\ snap = [states |-> <<>>, calls |-> <<>>]
  /\ pc = "doc"
  /\ text = <<>>
  /\ previous_state = STATE_NORMAL
  /\ block_state = STATE_NORMAL
  /\ calls = <<>>
  /\ NoCall
  /\ NoStore
  /\ DefaultBuild

\* currentTextChanged of the language combo box, connected to
\* _update_highlighter (snippet_manager.py:497-498, 733-737): a new
\* highlighter for the new language, then rehighlight().
ChangeLanguage ==
  /\ pc = "doc"
  /\ cursor = Len(doc)
  /\ language' \in LangLanguages \ {language}
  /\ highlighter' = SyntaxHighlighter(language', settings)
  /\ snap' = [states |-> doc_states, calls |-> doc_calls]
  /\ pass' = "changed"
  /\ cursor' = 0
  /\ UNCHANGED <<doc, doc_states, doc_calls, pc, settings>>
  /\ UNCHANGED <<text, previous_state, block_state, calls>>
  /\ UNCHANGED callVars
  /\ UNCHANGED appVars

NextLang == HighlightNextBlock \/ ChangeLanguage

SpecLang == InitLang /\ [][NextLang]_vars

(***************************************************************************)
(* SpecChain: a document whose blocks all hold a state from an earlier     *)
(* highlighting, by this or by another highlighter, is highlighted from    *)
(* its first block on, each block with its predecessor's stored state      *)
(* (STATE_NORMAL before the first block).                                  *)
(***************************************************************************)
\* Lines that open, close, and close then open the constructs.
ChainLines ==
  {<<>>, <<"/", "*">>, <<"*", "/">>, <<"*", "/", "/", "*">>,
   <<"\"", "\"", "\"">>, <<"'", "'", "'">>}

ChainDocs == UNION {[1..k -> ChainLines] : k \in 1..MaxBlocks}

InitChain ==
  /\ language \in LangLanguages
  /\ doc \in ChainDocs
  /\ \E stale \in States : doc_states = [i \in 1..Len(doc) |-> stale]
  /\ doc_calls = [i \in 1..Len(doc) |-> <<>>]
  /\ pass = "first"
  /\ cursor = 0
  /\ snap = [states |-> <<>>, calls |-> <<>>]
  /\ pc = "doc"
  /\ text = <<>>
  /\ previous_state = STATE_NORMAL
  /\ block_state = STATE_NORMAL
  /\ calls = <<>>
  /\ NoCall
  /\ NoStore
  /\ DefaultBuild

NextChain == HighlightNextBlock

SpecChain == InitChain /\ [][NextChain]_vars

(***************************************************************************)
(* SpecEdit: a document is highlighted from its first block on; then the   *)
(* text of one block is edited, any number of times.  After an edit the    *)
(* editor calls highlightBlock on the edited block and goes on to the next *)
(* block for as long as the block just highlighted changed its state       *)
(* (highlightBlock reads the state at line 328 and stores it at lines 345, *)
(* 359, 373 and 467).                                                      *)
(***************************************************************************)
EditFrags(name) ==
  CASE name = "C++" -> {<<"/", "*">>, <<"*", "/">>}
    [] name = "Python" -> {<<"\"", "\"", "\"">>, <<"x">>}

EditLines(name) == TextsOf(EditFrags(name), MaxLineFrags)

EditDocs(name) == UNION {[1..k -> EditLines(name)] : k \in 1..MaxBlocks}

InitEdit ==
  /\ language \in DocLanguages
  /\ doc \in EditDocs(language)
  /\ doc_states = [i \in 1..Len(doc) |-> STATE_NORMAL]
  /\ doc_calls = [i \in 1..Len(doc) |-> <<>>]
  /\ pass = "first"
  /\ cursor = 0
  /\ snap = [states |-> <<>>, calls |-> <<>>]
  /\ pc = "doc"
  /\ text = <<>>
  /\ previous_state = STATE_NORMAL
  /\ block_state = STATE_NORMAL
  /\ calls = <<>>
  /\ NoCall
  /\ NoStore
  /\ DefaultBuild

\* The text of block k is replaced; the editor will highlight block k.
Edit ==
  /\ pc = "doc"
  /\ cursor = Len(doc)
  /\ \E k \in 1..Len(doc) :
       \E new_text \in EditLines(language) \ {doc[k]} :
         /\ doc' = [doc EXCEPT ![k] = new_text]
         /\ cursor' = k - 1
  /\ snap' = [states |-> doc_states, calls |-> doc_calls]
  /\ pass' = "edit"
  /\ pc' = "cascade"
  /\ UNCHANGED <<doc_states, doc_calls>>
  /\ UNCHANGED blockVars
  /\ UNCHANGED callVars
  /\ UNCHANGED buildVars
  /\ UNCHANGED appVars

\* The cascade that stops after the edited block.
CascadeContinues_Never(old_state, new_state) == FALSE

\* The next block is highlighted too when the block just highlighted holds
\* another state than before.
CascadeContinues(old_state, new_state) == new_state # old_state

\* highlightBlock on the next block of the cascade, r its result.
CascadeWith(k, r) ==
  /\ doc_states' = [doc_states EXCEPT ![k] = r.state]
  /\ doc_calls' = [doc_calls EXCEPT ![k] = r.calls]
  /\ IF k < Len(doc) /\ CascadeContinues(doc_states[k], r.state)
     THEN /\ cursor' = k
          /\ UNCHANGED <<pass, pc>>
     ELSE /\ cursor' = Len(doc)
          /\ pass' = "settled"
          /\ pc' = "doc"

Cascade ==
  /\ pc = "cascade"
  /\ CascadeWith(cursor + 1,
                 highlightBlock(highlighter.language, doc[cursor + 1],
                                previousBlockState(doc_states, cursor + 1),
                                doc_states[cursor + 1]))
  /\ UNCHANGED <<doc, snap>>
  /\ UNCHANGED blockVars
  /\ UNCHANGED callVars
  /\ UNCHANGED buildVars
  /\ UNCHANGED appVars

NextEdit == HighlightNextBlock \/ Edit \/ Cascade

SpecEdit == InitEdit /\ [][NextEdit]_vars

(***************************************************************************)
(* SpecCall: one block is highlighted, one highlightBlock invocation at a  *)
(* time.  An invocation that formats a construct closed in its text calls  *)
(* highlightBlock again on the rest of the text (lines 456-457) and stores *)
(* the final state (lines 464-467) when that call returns.  The            *)
(* interpreter raises RecursionError when the calls nest deeper than its   *)
(* recursion limit; the program never changes the limit and never catches  *)
(* the error.                                                              *)
(***************************************************************************)
\* sys.getrecursionlimit() of CPython.
RecursionLimit == 1000

\* A line of RecursionLimit empty C comments.
DeepText ==
  [i \in 1..(4 * RecursionLimit) |-> <<"/", "*", "*", "/">>[((i - 1) % 4) + 1]]

InitCall ==
  /\ \/ /\ language \in Languages
        /\ text \in Texts(language)
        /\ previous_state \in States
        /\ block_state \in States
     \/ /\ language = "C++"
        /\ text = DeepText
        /\ previous_state = STATE_NORMAL
        /\ block_state = STATE_NORMAL
  /\ calls = <<>>
  /\ pc = "call"
  /\ NoDoc
  /\ NoCall
  /\ NoStore
  /\ DefaultBuild

\* The block as the invocation in progress sees it.
CurrentBlock == [state |-> block_state, calls |-> calls]

\* Lines 325-462 and, without a recursive call, 464-467: r is the outcome
\* of the invocation on the text t.
CallWith(t, r) ==
  IF r.recurse
  THEN /\ block_state' = r.blk.state
       /\ calls' = r.blk.calls
       /\ stack' = Append(stack, [length |-> Len(t),
                                  current_state |-> r.current_state])
       /\ tail_at' = tail_at + (Len(t) - Len(r.tail))
       /\ pc' = "call"
  ELSE /\ block_state' = Resume(lower(language), previous_state, r).state
       /\ calls' = Resume(lower(language), previous_state, r).calls
       /\ pc' = IF stack = <<>> THEN "done" ELSE "return"
       /\ UNCHANGED callVars

\* highlightBlock is entered with the text from offset tail_at on.
Call ==
  /\ pc = "call"
  /\ Len(stack) < RecursionLimit
  /\ CallWith(TailText(text, tail_at),
              Invocation(lower(language), TailText(text, tail_at), previous_state,
                         CurrentBlock))
  /\ UNCHANGED <<language, text, previous_state>>
  /\ UNCHANGED docVars
  /\ UNCHANGED buildVars
  /\ UNCHANGED appVars

\* The call of line 457 returned: lines 464-467 of the waiting invocation.
Return ==
  /\ pc = "return"
  /\ stack # <<>>
  /\ block_state' = StoreFinalState(
                       previous_state,
                       [blk |-> CurrentBlock,
                        current_state |-> stack[Len(stack)].current_state]).state
  /\ stack' = SubSeq(stack, 1, Len(stack) - 1)
  /\ pc' = IF Len(stack) = 1 THEN "done" ELSE "return"
  /\ UNCHANGED <<language, text, previous_state, calls, tail_at>>
  /\ UNCHANGED docVars
  /\ UNCHANGED buildVars
  /\ UNCHANGED appVars

\* The call of line 457 nests deeper than the recursion limit: the
\* interpreter raises RecursionError, which no invocation catches.
Raise ==
  /\ pc = "call"
  /\ Len(stack) >= RecursionLimit
  /\ pc' = "raised"
  /\ stack' = <<>>
  /\ UNCHANGED <<language, text, previous_state, block_state, calls, tail_at>>
  /\ UNCHANGED docVars
  /\ UNCHANGED buildVars
  /\ UNCHANGED appVars

NextCall == Call \/ Return \/ Raise

SpecCall == InitCall /\ [][NextCall]_vars

(***************************************************************************)
(* SpecBuild: a highlighter is constructed for a language name of the      *)
(* editor, with the colours the settings store holds at that moment.       *)
(***************************************************************************)
\* The object before __init__ ran: no field set.
Unbuilt == [language |-> ""]

InitBuild ==
  /\ language \in LanguageNames
  /\ settings \in Settings
  /\ highlighter = Unbuilt
  /\ pc = "new"
  /\ text = <<>>
  /\ previous_state = STATE_NORMAL
  /\ block_state = STATE_NORMAL
  /\ calls = <<>>
  /\ NoDoc
  /\ NoCall
  /\ NoStore

\* SyntaxHighlighter(document, language).
Build ==
  /\ pc = "new"
  /\ highlighter' = SyntaxHighlighter(language, settings)
  /\ pc' = "built"
  /\ UNCHANGED settings
  /\ UNCHANGED blockVars
  /\ UNCHANGED docVars
  /\ UNCHANGED callVars
  /\ UNCHANGED appVars

NextBuild == Build

SpecBuild == InitBuild /\ [][NextBuild]_vars

(***************************************************************************)
(* The snippet store of snippet_manager.py: the snippets table of init_db  *)
(* and the database functions.  A text is the sequence of its characters;  *)
(* an id is a one-element tuple, so that it differs from None.             *)
(***************************************************************************)
\* str.strip(): whitespace is removed at both ends.
IsSpace(c) == c \in {" ", "\t", "\n"}

RECURSIVE lstrip(_)
lstrip(s) == IF s # <<>> /\ IsSpace(Head(s)) THEN lstrip(Tail(s)) ELSE s

RECURSIVE rstrip(_)
rstrip(s) ==
  IF s # <<>> /\ IsSpace(s[Len(s)])
  THEN rstrip(SubSeq(s, 1, Len(s) - 1))
  ELSE s

strip(s) == rstrip(lstrip(s))

\* str.split(sep) for a separator of one character: the pieces between the
\* separators, the empty ones too; one piece, the text, without separator.
RECURSIVE split(_, _)
split(s, sep) ==
  IF \E i \in 1..Len(s) : s[i] = sep
  THEN LET i == CHOOSE i \in 1..Len(s) :
                  s[i] = sep /\ \A j \in 1..(i - 1) : s[j] # sep
       IN <<SubSeq(s, 1, i - 1)>> \o split(SubSeq(s, i + 1, Len(s)), sep)
  ELSE <<s>>

\* sep.join(parts).
RECURSIVE join(_, _)
join(sep, parts) ==
  IF parts = <<>> THEN <<>>
  ELSE IF Len(parts) = 1 THEN parts[1]
  ELSE parts[1] \o <<sep>> \o join(sep, Tail(parts))

\* [t.strip() for t in parts if t.strip()].
RECURSIVE StrippedNonEmpty(_)
StrippedNonEmpty(parts) ==
  IF parts = <<>> THEN <<>>
  ELSE IF strip(Head(parts)) # <<>>
  THEN <<strip(Head(parts))>> \o StrippedNonEmpty(Tail(parts))
  ELSE StrippedNonEmpty(Tail(parts))

\* The non-empty pieces joined as they are, untrimmed.
RECURSIVE NonEmpty(_)
NonEmpty(parts) ==
  IF parts = <<>> THEN <<>>
  ELSE IF strip(Head(parts)) # <<>>
  THEN <<Head(parts)>> \o NonEmpty(Tail(parts))
  ELSE NonEmpty(Tail(parts))

\* The tags joined without trimming each of them.
tags_Untrimmed(input) == join(",", NonEmpty(split(strip(input), ",")))

\* Line 632 of _save_snippet: the tags string that is stored for the text
\* of the tags field.
tags(input) == join(",", StrippedNonEmpty(split(strip(input), ",")))

\* SQLite's LIKE: % matches any run of characters, _ any one character,
\* and the letters A-Z match without regard to case.
AsciiUpper ==
  <<"A", "B", "C", "D", "E", "F", "G", "H", "I", "J", "K", "L", "M",
    "N", "O", "P", "Q", "R", "S", "T", "U", "V", "W", "X", "Y", "Z">>

AsciiLower ==
  <<"a", "b", "c", "d", "e", "f", "g", "h", "i", "j", "k", "l", "m",
    "n", "o", "p", "q", "r", "s", "t", "u", "v", "w", "x", "y", "z">>

Fold(c) ==
  IF c \in UpperCase
  THEN AsciiLower[CHOOSE i \in DOMAIN AsciiUpper : AsciiUpper[i] = c]
  ELSE c

RECURSIVE LIKE(_, _)
LIKE(s, pattern) ==
  IF pattern = <<>> THEN s = <<>>
  ELSE IF Head(pattern) = "%"
  THEN \E i \in 0..Len(s) : LIKE(SubSeq(s, i + 1, Len(s)), Tail(pattern))
  ELSE /\ s # <<>>
       /\ Head(pattern) = "_" \/ Fold(Head(pattern)) = Fold(Head(s))
       /\ LIKE(Tail(s), Tail(pattern))

\* The characters of a language name, for the LIKE of the search.
Chars(name) ==
  CASE name = "Python" -> <<"P", "y", "t", "h", "o", "n">>
    [] name = "Text" -> <<"T", "e", "x", "t">>
    [] name = "C++" -> <<"C", "+", "+">>
    [] OTHER -> <<>>

\* uuid.uuid4().hex of add_snippet: an id no earlier call returned.
uuid4(made) ==
  <<1 + Cardinality({i \in DOMAIN made : made[i].fn = "add_snippet"})>>

\* The ids add_snippet returned so far.
Issued(made) == {made[i].id : i \in {j \in DOMAIN made : made[j].fn = "add_snippet"}}

\* add_snippet (lines 111-124): the INSERT, created_at and updated_at being
\* the time of the call to the second.  a holds the five text arguments.
add_snippet(rows, new_id, now, a) ==
  rows \cup {[id |-> new_id, title |-> a.title, code |-> a.code,
              language |-> a.language, tags |-> a.tags,
              description |-> a.description,
              created_at |-> now, updated_at |-> now]}

\* update_snippet (lines 126-136) with the trigger update_snippet_timestamp
\* of init_db (lines 47-55), which sets updated_at to CURRENT_TIMESTAMP.
update_snippet(rows, now, snippet_id, a) ==
  {IF r.id = snippet_id
   THEN [r EXCEPT !.title = a.title, !.code = a.code,
                  !.language = a.language, !.tags = a.tags,
                  !.description = a.description, !.updated_at = now]
   ELSE r : r \in rows}

\* delete_snippet that leaves the row.
delete_snippet_Keeps(rows, snippet_id) == rows

\* delete_snippet (lines 138-144).
delete_snippet(rows, snippet_id) == {r \in rows : r.id # snippet_id}

\* get_snippet_details (lines 100-109): the row of the id, or None.
get_snippet_details(rows, snippet_id) ==
  IF \E r \in rows : r.id = snippet_id
  THEN CHOOSE r \in rows : r.id = snippet_id
  ELSE None

\* The WHERE clause of load_snippets (lines 69-85).
Selected(r, search_term, filter, language_filter) ==
  /\ search_term # <<>> =>
       LET like_term == <<"%">> \o search_term \o <<"%">>
       IN \/ LIKE(r.title, like_term)
          \/ LIKE(r.tags, like_term)
          \/ LIKE(Chars(r.language), like_term)
          \/ LIKE(r.description, like_term)
          \/ LIKE(r.code, like_term)
  /\ (filter # <<>> /\ filter # AllTags) =>
       \/ LIKE(r.tags, <<"%", ",">> \o filter \o <<",", "%">>)
       \/ LIKE(r.tags, filter \o <<",", "%">>)
       \/ LIKE(r.tags, <<"%", ",">> \o filter)
       \/ r.tags = filter
  /\ (language_filter # "" /\ language_filter # AllLanguages) =>
       r.language = language_filter

\* ORDER BY updated_at DESC: the orders of the rows in which no row comes
\* before one updated later; SQL leaves the order of rows of one
\* updated_at open.
OrderByUpdatedAtDesc(rows) ==
  {s \in [1..Cardinality(rows) -> rows] :
     /\ \A i, j \in DOMAIN s : i # j => s[i] # s[j]
     /\ \A i, j \in DOMAIN s : i < j => s[i].updated_at >= s[j].updated_at}

\* load_snippets (lines 59-98): the lists of (id, title) it can return.
load_snippets(rows, search_term, filter, language_filter) ==
  {[i \in DOMAIN s |-> <<s[i].id, s[i].title>>] :
     s \in OrderByUpdatedAtDesc(
             {r \in rows : Selected(r, search_term, filter, language_filter)})}

\* get_unique_tags (lines 822-852), as a set: the trimmed non-empty tags of
\* all rows.
get_unique_tags(rows) ==
  UNION {{t[i] : i \in DOMAIN t} :
           t \in {StrippedNonEmpty(split(r.tags, ",")) : r \in rows}}

(***************************************************************************)
(* The database functions called one after the other, in any order, while  *)
(* time passes.                                                            *)
(***************************************************************************)
\* The calls that change the table are at most MaxCalls, the seconds that
\* pass at most MaxClock.
MaxCalls == 2
MaxClock == 1

\* The arguments of add_snippet and update_snippet: the tags are
\* normalized, and among them are tags that differ in case only and a tag
\* that holds another tag.
StoreArgs ==
  {[title |-> <<"A">>, code |-> <<"x">>, language |-> "Python",
    tags |-> <<"b">>, description |-> <<>>],
   [title |-> <<"B">>, code |-> <<>>, language |-> "Text",
    tags |-> <<"a", ",", "B">>, description |-> <<"d">>],
   [title |-> <<"A">>, code |-> <<"x">>, language |-> "Text",
    tags |-> <<"a", "b", ",", "c">>, description |-> <<>>]}

\* The arguments of load_snippets.
SearchTerms == {<<>>, <<"x">>}
TagFilters == {<<>>, AllTags, <<"b">>, <<"c">>, <<"a", "_">>}
LanguageFilters == {AllLanguages, "Text"}

NoArgs == [title |-> <<>>, code |-> <<>>, language |-> "", tags |-> <<>>,
           description |-> <<>>]

InitStore ==
  /\ pc = "store"
  /\ language = "Text"
  /\ text = <<>>
  /\ previous_state = STATE_NORMAL
  /\ block_state = STATE_NORMAL
  /\ calls = <<>>
  /\ NoDoc
  /\ NoCall
  /\ NoStore
  /\ DefaultBuild

AddSnippet ==
  /\ pc = "store"
  /\ Len(log) < MaxCalls
  /\ \E a \in StoreArgs :
       /\ snippets' = add_snippet(snippets, uuid4(log), clock, a)
       /\ log' = Append(log, [fn |-> "add_snippet", id |-> uuid4(log),
                              args |-> a])
       /\ returned' = [fn |-> "add_snippet", args |-> a,
                       value |-> uuid4(log)]
  /\ UNCHANGED <<clock, pc>>
  /\ UNCHANGED windowVars
  /\ UNCHANGED blockVars
  /\ UNCHANGED docVars
  /\ UNCHANGED callVars
  /\ UNCHANGED buildVars

UpdateSnippet ==
  /\ pc = "store"
  /\ Len(log) < MaxCalls
  /\ \E snippet_id \in Issued(log) :
       \E a \in StoreArgs :
         /\ snippets' = update_snippet(snippets, clock, snippet_id, a)
         /\ log' = Append(log, [fn |-> "update_snippet", id |-> snippet_id,
                                args |-> a])
         /\ returned' = [fn |-> "update_snippet", args |-> snippet_id,
                         value |-> None]
  /\ UNCHANGED <<clock, pc>>
  /\ UNCHANGED windowVars
  /\ UNCHANGED blockVars
  /\ UNCHANGED docVars
  /\ UNCHANGED callVars
  /\ UNCHANGED buildVars

DeleteSnippet ==
  /\ pc = "store"
  /\ Len(log) < MaxCalls
  /\ \E snippet_id \in Issued(log) :
       /\ snippets' = delete_snippet(snippets, snippet_id)
       /\ log' = Append(log, [fn |-> "delete_snippet", id |-> snippet_id,
                              args |-> NoArgs])
       /\ returned' = [fn |-> "delete_snippet", args |-> snippet_id,
                       value |-> None]
  /\ UNCHANGED <<clock, pc>>
  /\ UNCHANGED windowVars
  /\ UNCHANGED blockVars
  /\ UNCHANGED docVars
  /\ UNCHANGED callVars
  /\ UNCHANGED buildVars

GetSnippetDetails ==
  /\ pc = "store"
  /\ \E snippet_id \in Issued(log) \cup {uuid4(log)} :
       returned' = [fn |-> "get_snippet_details", args |-> snippet_id,
                    value |-> get_snippet_details(snippets, snippet_id)]
  /\ UNCHANGED <<snippets, clock, log, pc>>
  /\ UNCHANGED windowVars
  /\ UNCHANGED blockVars
  /\ UNCHANGED docVars
  /\ UNCHANGED callVars
  /\ UNCHANGED buildVars

LoadSnippets ==
  /\ pc = "store"
  /\ \E search_term \in SearchTerms :
       \E filter \in TagFilters :
         \E language_filter \in LanguageFilters :
           \E found \in load_snippets(snippets, search_term, filter,
                                      language_filter) :
             returned' = [fn |-> "load_snippets",
                          args |-> [search_term |-> search_term,
                                    tag_filter |-> filter,
                                    language_filter |-> language_filter],
                          value |-> found]
  /\ UNCHANGED <<snippets, clock, log, pc>>
  /\ UNCHANGED windowVars
  /\ UNCHANGED blockVars
  /\ UNCHANGED docVars
  /\ UNCHANGED callVars
  /\ UNCHANGED buildVars

\* A second passes.
Tick ==
  /\ pc = "store"
  /\ clock < MaxClock
  /\ clock' = clock + 1
  /\ UNCHANGED <<snippets, log, returned, pc>>
  /\ UNCHANGED windowVars
  /\ UNCHANGED blockVars
  /\ UNCHANGED docVars
  /\ UNCHANGED callVars
  /\ UNCHANGED buildVars

NextStore ==
  \/ AddSnippet
  \/ UpdateSnippet
  \/ DeleteSnippet
  \/ GetSnippetDetails
  \/ LoadSnippets
  \/ Tick

SpecStore == InitStore /\ [][NextStore]_vars

(***************************************************************************)
(* The details panel of the window: the title and the tags typed, saved    *)
(* with _save_snippet, with nothing typed in the search field and both     *)
(* filters left at their first entry; the code editor and the description  *)
(* stay empty.                                                             *)
(***************************************************************************)
\* The texts of the tags field are made of up to MaxTagLen of the
\* characters TagChars.
MaxTagLen == 4

TagChars == {"a", ",", " "}

\* The tags `a, b ,c`.
SpacedTags == <<"a", ",", " ", "b", " ", ",", "c">>

TagsInputs ==
  UNION {[1..n -> TagChars] : n \in 0..MaxTagLen} \cup {SpacedTags}

TitleInputs == {<<>>, <<" ">>, <<" ", "A", " ">>, <<"B">>}

SaveLanguages == {"Python", "Text"}

InitSave ==
  /\ pc = "window"
  /\ language \in SaveLanguages
  /\ text = <<>>
  /\ previous_state = STATE_NORMAL
  /\ block_state = STATE_NORMAL
  /\ calls = <<>>
  /\ NoDoc
  /\ NoCall
  /\ DefaultBuild
  /\ snippets = {}
  /\ clock = 0
  /\ log = <<>>
  /\ returned = NothingReturned
  /\ current_snippet_id = None
  /\ tag_filter = AllTags
  /\ list_items = <<>>
  /\ title_input \in TitleInputs
  /\ tags_input \in TagsInputs
  /\ shown = ""
  /\ search_input = <<>>
  /\ selected_item = None

\* get_unique_languages (lines 854-874), as a set.
get_unique_languages(rows) == {r.language : r \in {q \in rows : q.language # ""}}

\* A title that is never taken to be missing.
TitleMissing_Never(title) == FALSE

\* Line 625: `if not title`.
TitleMissing(title) == title = <<>>

\* Lines 629-633: the arguments _save_snippet passes on.
DetailsArgs ==
  [title |-> strip(title_input),
   code |-> IF doc = <<>> THEN <<>> ELSE toPlainText(doc),
   language |-> language,
   tags |-> tags(tags_input),
   description |-> <<>>]

\* _clear_details_panel (lines 586-605), but for current_snippet_id.
ClearDetailsPanel ==
  /\ title_input' = <<>>
  /\ tags_input' = <<>>
  /\ language' = "Text"
  /\ highlighter' = SyntaxHighlighter("Text", settings)

\* _display_snippet_details (lines 539-584).
DisplaySnippetDetails(details) ==
  /\ title_input' = details.title
  /\ tags_input' = details.tags
  /\ language' = IF details.language = "" THEN "Text" ELSE details.language
  /\ highlighter' = SyntaxHighlighter(language', settings)

\* _on_list_selection_changed (lines 500-519) with the item of snippet_id
\* selected, rows being the table.
SelectionChanged(rows, snippet_id) ==
  /\ returned' = [fn |-> "get_snippet_details", args |-> snippet_id,
                  value |-> get_snippet_details(rows, snippet_id)]
  /\ IF get_snippet_details(rows, snippet_id) # None
     THEN DisplaySnippetDetails(get_snippet_details(rows, snippet_id))
     ELSE ClearDetailsPanel

\* The ids of the items of a list load_snippets returned.
Items(found) == [i \in DOMAIN found |-> found[i][1]]

\* The add_snippet and update_snippet calls made so far.
Saves(made) ==
  Cardinality({i \in DOMAIN made : made[i].fn # "delete_snippet"})

\* The selection after a save that forgets the snippet it saved.
Reselect_Forgets(rows, saved_id, operation_type) ==
  /\ ClearDetailsPanel
  /\ selected_item' = None
  /\ returned' = [fn |-> "get_unique_languages", args |-> None,
                  value |-> get_unique_languages(rows)]
  /\ current_snippet_id' = None

\* Lines 656-678 of _save_snippet: the saved snippet is looked for among
\* the items and selected; the panel is cleared when it is not there.
Reselect(rows, saved_id, operation_type) ==
  IF \E i \in DOMAIN list_items' : list_items'[i] = saved_id
  THEN /\ SelectionChanged(rows, saved_id)
       /\ selected_item' = saved_id
       /\ current_snippet_id' =
            IF \/ get_snippet_details(rows, saved_id) # None
               \/ operation_type = "added"
            THEN saved_id
            ELSE None
  ELSE /\ ClearDetailsPanel
       /\ selected_item' = None
       /\ returned' = [fn |-> "get_unique_languages", args |-> None,
                       value |-> get_unique_languages(rows)]
       /\ current_snippet_id' =
            IF operation_type = "added" THEN saved_id ELSE None

\* Lines 635-681 of _save_snippet: update_snippet of the current snippet,
\* or add_snippet when there is none; then the list and the filters are
\* loaded again and the saved snippet is selected.
Saved(a, saved_id, operation_type) ==
  /\ snippets' =
       IF operation_type = "updated"
       THEN update_snippet(snippets, clock, saved_id, a)
       ELSE add_snippet(snippets, saved_id, clock, a)
  /\ log' = Append(log, [fn |-> IF operation_type = "updated"
                                THEN "update_snippet"
                                ELSE "add_snippet",
                         id |-> saved_id, args |-> a])
  /\ shown' = operation_type
  /\ \E found \in load_snippets(snippets', search_input, tag_filter,
                               AllLanguages) :
       list_items' = Items(found)
  /\ tag_filter' =
       IF tag_filter \in {AllTags} \cup get_unique_tags(snippets')
       THEN tag_filter
       ELSE AllTags
  /\ Reselect(snippets', saved_id, operation_type)

\* _save_snippet (lines 622-685).
SaveSnippet ==
  /\ pc = "window"
  /\ IF TitleMissing(strip(title_input))
     THEN /\ shown' = "Input Error"
          /\ UNCHANGED storeVars
          /\ UNCHANGED <<current_snippet_id, tag_filter, list_items,
                         title_input, tags_input, language, highlighter,
                         selected_item>>
     ELSE /\ Saves(log) < MaxCalls
          /\ Saved(DetailsArgs,
                   IF current_snippet_id # None
                   THEN current_snippet_id
                   ELSE uuid4(log),
                   IF current_snippet_id # None THEN "updated" ELSE "added")
          /\ UNCHANGED clock
  /\ UNCHANGED search_input
  /\ UNCHANGED <<text, previous_state, block_state, calls, pc, settings>>
  /\ UNCHANGED docVars
  /\ UNCHANGED callVars

\* An item of the list is selected: _on_list_selection_changed (lines
\* 500-519).
OnListSelectionChanged ==
  /\ pc = "window"
  /\ \E i \in DOMAIN list_items :
       /\ list_items[i] # selected_item
       /\ selected_item' = list_items[i]
       /\ SelectionChanged(snippets, list_items[i])
       /\ current_snippet_id' =
            IF get_snippet_details(snippets, list_items[i]) # None
            THEN list_items[i]
            ELSE None
       /\ shown' =
            IF get_snippet_details(snippets, list_items[i]) # None
            THEN ""
            ELSE "Error"
  /\ UNCHANGED <<snippets, clock, log, tag_filter, list_items, search_input>>
  /\ UNCHANGED <<text, previous_state, block_state, calls, pc, settings>>
  /\ UNCHANGED docVars
  /\ UNCHANGED callVars

\* _add_new_snippet_ui (lines 607-620).
AddNewSnippetUi ==
  /\ pc = "window"
  /\ ClearDetailsPanel
  /\ selected_item' = None
  /\ current_snippet_id' = None
  /\ shown' = "Enter details for new snippet..."
  /\ UNCHANGED storeVars
  /\ UNCHANGED <<tag_filter, list_items, search_input>>
  /\ UNCHANGED <<text, previous_state, block_state, calls, pc, settings>>
  /\ UNCHANGED docVars
  /\ UNCHANGED callVars

\* Another title is typed into the title field.
EditTitle ==
  /\ pc = "window"
  /\ title_input' \in TitleInputs \ {title_input}
  /\ shown' = ""
  /\ UNCHANGED storeVars
  /\ UNCHANGED <<current_snippet_id, tag_filter, list_items, tags_input,
                 search_input, selected_item>>
  /\ UNCHANGED blockVars
  /\ UNCHANGED <<pc, settings, highlighter>>
  /\ UNCHANGED docVars
  /\ UNCHANGED callVars

NextSave ==
  \/ SaveSnippet
  \/ OnListSelectionChanged
  \/ AddNewSnippetUi
  \/ EditTitle

SpecSave == InitSave /\ [][NextSave]_vars

(***************************************************************************)
(* SpecWindow: the main window is used: snippets are typed, saved,         *)
(* selected in the list and deleted, New is pressed, and the search text   *)
(* and the tag filter are changed (snippet_manager.py, _connect_signals,   *)
(* lines 478-488).                                                         *)
(***************************************************************************)
\* The texts of the tags field at the start, and those typed into the
\* search field.
WindowTags == {<<>>, <<"a">>}
SearchInputs == {<<>>, <<"B">>}

InitWindow ==
  /\ pc = "window"
  /\ language = "Text"
  /\ text = <<>>
  /\ previous_state = STATE_NORMAL
  /\ block_state = STATE_NORMAL
  /\ calls = <<>>
  /\ NoDoc
  /\ NoCall
  /\ DefaultBuild
  /\ snippets = {}
  /\ clock = 0
  /\ log = <<>>
  /\ returned = NothingReturned
  /\ current_snippet_id = None
  /\ tag_filter = AllTags
  /\ list_items = <<>>
  /\ title_input \in TitleInputs
  /\ tags_input \in WindowTags
  /\ shown = ""
  /\ search_input = <<>>
  /\ selected_item = None

\* _load_and_populate_tags (lines 747-769): the tag filter keeps its text
\* when a row still has that tag, and goes back to "All Tags" otherwise.
LoadAndPopulateTags(rows) ==
  IF tag_filter \in {AllTags} \cup get_unique_tags(rows)
  THEN tag_filter
  ELSE AllTags

\* _refresh_snippet_list (lines 796-809) and _populate_list (lines 464-476)
\* with the list's signals not blocked: clearing the list takes the
\* selection away, and _on_list_selection_changed, called with no item
\* selected, clears the panel of the snippet that was shown (lines 534-537).
RefreshSnippetList(rows, search_term, filter) ==
  /\ \E found \in load_snippets(rows, search_term, filter, AllLanguages) :
       list_items' = Items(found)
  /\ selected_item' = None
  /\ IF selected_item # None /\ current_snippet_id # None
     THEN /\ ClearDetailsPanel
          /\ current_snippet_id' = None
     ELSE UNCHANGED <<title_input, tags_input, language, highlighter,
                      current_snippet_id>>

\* textChanged of the search field (line 482).
SearchTextChanged ==
  /\ pc = "window"
  /\ search_input' \in SearchInputs \ {search_input}
  /\ RefreshSnippetList(snippets, search_input', tag_filter)
  /\ shown' = ""
  /\ UNCHANGED storeVars
  /\ UNCHANGED tag_filter
  /\ UNCHANGED <<text, previous_state, block_state, calls, pc, settings>>
  /\ UNCHANGED docVars
  /\ UNCHANGED callVars

\* currentTextChanged of the tag filter (line 480).
TagFilterChanged ==
  /\ pc = "window"
  /\ tag_filter' \in ({AllTags} \cup get_unique_tags(snippets)) \ {tag_filter}
  /\ RefreshSnippetList(snippets, search_input, tag_filter')
  /\ shown' = ""
  /\ UNCHANGED storeVars
  /\ UNCHANGED search_input
  /\ UNCHANGED <<text, previous_state, block_state, calls, pc, settings>>
  /\ UNCHANGED docVars
  /\ UNCHANGED callVars

\* _delete_selected_snippet (lines 687-721), the answer being Yes.
DeleteSelectedSnippet ==
  /\ pc = "window"
  /\ current_snippet_id # None
  /\ selected_item # None
  /\ snippets' = delete_snippet(snippets, current_snippet_id)
  /\ log' = Append(log, [fn |-> "delete_snippet", id |-> current_snippet_id,
                         args |-> NoArgs])
  /\ returned' = [fn |-> "delete_snippet", args |-> current_snippet_id,
                  value |-> None]
  /\ shown' = "deleted"
  /\ tag_filter' = LoadAndPopulateTags(snippets')
  /\ ClearDetailsPanel
  /\ current_snippet_id' = None
  /\ \E found \in load_snippets(snippets', search_input, tag_filter',
                               AllLanguages) :
       list_items' = Items(found)
  /\ selected_item' = None
  /\ UNCHANGED <<clock, search_input>>
  /\ UNCHANGED <<text, previous_state, block_state, calls, pc, settings>>
  /\ UNCHANGED docVars
  /\ UNCHANGED callVars

NextWindow ==
  \/ SaveSnippet
  \/ OnListSelectionChanged
  \/ AddNewSnippetUi
  \/ EditTitle
  \/ SearchTextChanged
  \/ TagFilterChanged
  \/ DeleteSelectedSnippet

SpecWindow == InitWindow /\ [][NextWindow]_vars

(***************************************************************************)
(* Properties of one highlightBlock call, checked under Spec.              *)
(***************************************************************************)
lang == lower(language)

Done == pc = "done"

\* The format each character of the block ends with.
Formats == FinalFormats(calls, Len(text))

\* The style a multi-line state is painted with.
ConstructStyle(state) ==
  IF state = STATE_ML_COMMENT THEN "comment_format" ELSE "string_format"

\* Every character of [from, to) ends with the given style.
Painted(from, to, style) == \A i \in from..(to - 1) : Formats[i + 1] = style

\* The constructs of a text from offset at on, read left to right at the
\* offsets of the whole text: the earliest start, its end searched after the
\* start delimiter, the next construct after that end; a construct with no
\* end runs to the end of the text and is the last one.
RECURSIVE Constructs(_, _, _)
Constructs(l, t, at) ==
  LET s == EarliestStart(l, t, at)
      end == ml_end_regex(l, s.matched_state)
      e == IF s.next_ml_start = -1 THEN -1
           ELSE Find(end, t, s.next_ml_start + s.match_len)
  IN IF s.next_ml_start = -1 THEN <<>>
     ELSE IF e = -1
     THEN << [start |-> s.next_ml_start, stop |-> Len(t),
              state |-> s.matched_state, closed |-> FALSE] >>
     ELSE << [start |-> s.next_ml_start, stop |-> e + Len(end),
              state |-> s.matched_state, closed |-> TRUE] >>
          \o Constructs(l, t, e + Len(end))

\* The spans of a text from offset at on, all at the offsets of the whole
\* text: the single-line rules on the text before each construct, then the
\* construct's span, then the same for the text after it.
RECURSIVE SpansFrom(_, _, _)
SpansFrom(l, t, at) ==
  LET cs == Constructs(l, t, at)
      upto == IF cs = <<>> THEN Len(t) ELSE cs[1].start
      before == SubSeq(t, at + 1, upto)
      ruleSpans == IF before = <<>> THEN <<>>
                   ELSE [j \in 1..Len(RuleCalls(highlighting_rules(l), before, 0)) |->
                           LET c == RuleCalls(highlighting_rules(l), before, 0)[j]
                           IN <<at + c[1], c[2], c[3]>>]
  IN IF cs = <<>> THEN ruleSpans
     ELSE ruleSpans
          \o << <<cs[1].start, cs[1].stop - cs[1].start, ConstructStyle(cs[1].state)>> >>
          \o (IF cs[1].closed THEN SpansFrom(l, t, cs[1].stop) ELSE <<>>)

\* ---- C1 ----------------------------------------------------------------
FirstStart == EarliestStart(lang, text, 0)

C1_Case ==
  /\ Done
  /\ previous_state = STATE_NORMAL
  /\ FirstStart.next_ml_start # -1
  /\ Find(ml_end_regex(lang, FirstStart.matched_state), text,
          FirstStart.next_ml_start + FirstStart.match_len) = -1

\* C1: when the previous state is Normal and the earliest construct start,
\* at offset s, has no end delimiter after its start delimiter, the block
\* is styled with the construct's style from s to its end, by the last
\* setFormat call, and the block's state becomes that construct's state.
C1_StartWithoutEndOpensConstruct ==
  C1_Case =>
    /\ block_state = FirstStart.matched_state
    /\ calls # <<>>
    /\ calls[Len(calls)] =
         <<FirstStart.next_ml_start, Len(text) - FirstStart.next_ml_start,
           ConstructStyle(FirstStart.matched_state)>>
    /\ Painted(FirstStart.next_ml_start, Len(text),
               ConstructStyle(FirstStart.matched_state))

\* A construct opened after other text, leaving a string state behind.
C1_Witness ==
  /\ C1_Case
  /\ FirstStart.next_ml_start > 0
  /\ block_state = STATE_ML_STRING_SQ
  /\ Painted(FirstStart.next_ml_start, Len(text), "string_format")

\* ---- C2 ----------------------------------------------------------------
ContinuationHasEnd ==
  /\ previous_state # STATE_NORMAL
  /\ ml_end_regex(lang, previous_state) # None

ContinuationEnd == Find(ml_end_regex(lang, previous_state), text, 0)

\* The offset just after the end delimiter that closes the continuation.
ContinuationCursor == ContinuationEnd + Len(ml_end_regex(lang, previous_state))

C2_Case ==
  /\ Done
  /\ ContinuationHasEnd
  /\ ContinuationEnd # -1
  /\ EarliestStart(lang, text, ContinuationCursor).next_ml_start = -1

\* C2: when the previous state is a construct whose end delimiter first
\* matches at offset i with length L and the text from i+L on holds no
\* construct start, the first call styles [0, i+L) with the construct's
\* style, the other calls are the single-line rules applied to the text
\* from i+L on, reported at i+L or later, and the block's state is Normal.
C2_ContinuationClosesThenRules ==
  C2_Case =>
    /\ block_state = STATE_NORMAL
    /\ calls # <<>>
    /\ calls[1] = <<0, ContinuationCursor, ConstructStyle(previous_state)>>
    /\ Painted(0, ContinuationCursor, ConstructStyle(previous_state))
    /\ \A j \in 2..Len(calls) :
         /\ calls[j][1] >= ContinuationCursor
         /\ calls[j][1] + calls[j][2] <= Len(text)
    /\ SubSeq(calls, 2, Len(calls)) =
         (IF ContinuationCursor < Len(text)
          THEN RuleCalls(highlighting_rules(lang),
                         SubSeq(text, ContinuationCursor + 1, Len(text)),
                         ContinuationCursor)
          ELSE <<>>)

\* A continuation closed inside the text, with rule spans after it.
C2_Witness ==
  /\ C2_Case
  /\ ContinuationEnd > 0
  /\ Len(calls) > 1
  /\ block_state = STATE_NORMAL

\* ---- C3 ----------------------------------------------------------------
C3_Later == Constructs(lang, text, ContinuationCursor)

C3_Case ==
  /\ Done
  /\ ContinuationHasEnd
  /\ ContinuationEnd # -1
  /\ C3_Later # <<>>
  /\ ~C3_Later[1].closed

\* C3: when the previous state is a construct that closes in the text and
\* the text after it holds a construct start with no end, the block's state
\* becomes the state of that new construct.
C3_ContinuationClosesThenOpens ==
  C3_Case => block_state = C3_Later[1].state

\* ---- C4 ----------------------------------------------------------------
LineConstructs == Constructs(lang, text, 0)

C4_Case ==
  /\ Done
  /\ previous_state = STATE_NORMAL
  /\ Len(LineConstructs) >= 2
  /\ ~LineConstructs[Len(LineConstructs)].closed

\* C4: when the previous state is Normal and the text opens and closes a
\* construct and later opens one that has no end, the block's state becomes
\* the state of the later construct.
C4_ClosedThenOpenConstruct ==
  C4_Case => block_state = LineConstructs[Len(LineConstructs)].state

\* ---- C5 ----------------------------------------------------------------
C5_Case ==
  /\ Done
  /\ previous_state = STATE_NORMAL
  /\ Len(LineConstructs) >= 2
  /\ \A k \in 1..Len(LineConstructs) : LineConstructs[k].closed

\* C5: when the previous state is Normal and the text holds several
\* constructs that each open and close in it, every construct's span is
\* reported at its offsets in the block's text, every character ends with
\* the style the spans give it at those offsets, and the state is Normal.
C5_SpansAtBlockOffsets ==
  C5_Case =>
    /\ block_state = STATE_NORMAL
    /\ \A k \in 1..Len(LineConstructs) :
         /\ \E j \in 1..Len(calls) :
              calls[j] = <<LineConstructs[k].start, LineConstructs[k].stop - LineConstructs[k].start,
                           ConstructStyle(LineConstructs[k].state)>>
         /\ Painted(LineConstructs[k].start, LineConstructs[k].stop,
                    ConstructStyle(LineConstructs[k].state))
    /\ Formats = FinalFormats(SpansFrom(lang, text, 0), Len(text))

\* ---- C6 ----------------------------------------------------------------
UnclosedContinuation ==
  /\ Done
  /\ ContinuationHasEnd
  /\ ContinuationEnd = -1

\* C6: when the previous state is a construct whose end delimiter is
\* defined for the language and does not occur in the text, the block's
\* state is the previous state, whatever the text holds.
C6_UnclosedContinuationKeepsState ==
  UnclosedContinuation => block_state = previous_state

\* An unclosed continuation over a text that starts another construct.
C6_Witness ==
  /\ UnclosedContinuation
  /\ FirstStart.next_ml_start # -1
  /\ FirstStart.matched_state # previous_state
  /\ block_state = previous_state

\* ---- C7 ----------------------------------------------------------------
\* C7: when the previous state is a construct whose end delimiter is
\* defined and does not occur in the text, the only span is the construct's
\* style over the whole text: no single-line rule is applied and no
\* construct start is detected.
C7_UnclosedContinuationOnlySpan ==
  UnclosedContinuation => calls = << <<0, Len(text), ConstructStyle(previous_state)>> >>

\* ---- C8 ----------------------------------------------------------------
ClassFoo == <<"c", "l", "a", "s", "s", " ", "F", "o", "o">>

\* The token class followed by Foo starts at offset p.
ClassFooAt(p) ==
  /\ p + Len(ClassFoo) <= Len(text)
  /\ SubSeq(text, p + 1, p + Len(ClassFoo)) = ClassFoo
  /\ ~IsWordAt(text, p - 1)

\* A Python block with no multi-line string delimiter, after a Normal block.
C8_Case ==
  /\ Done
  /\ language = "Python"
  /\ previous_state = STATE_NORMAL
  /\ FirstStart.next_ml_start = -1

C9_ResultDependsOnInputsOnly ==
  Done =>
    \A held \in States :
      LET r == highlightBlock(language, text, previous_state, held)
      IN block_state = r.state /\ calls = r.calls

\* ---- C11 ---------------------------------------------------------------
\* The lower-cased names with a section of their own in the rule table.
Recognized == {"python", "c++", "c#", "sql", "markdown", "html", "css", "javascript"}

NoConstruct(l) ==
  /\ ml_comment_start(l) = None
  /\ ml_comment_end(l) = None
  /\ ml_string_dq_start(l) = None
  /\ ml_string_dq_end(l) = None
  /\ ml_string_sq_start(l) = None
  /\ ml_string_sq_end(l) = None

\* C11: a language name outside python, c++, c#, sql, markdown, html, css
\* and javascript has a table with no multi-line construct, and a block
\* highlighted under it after a Normal block ends in state Normal, whatever
\* its text.
C11_UnknownLanguageStaysNormal ==
  /\ \A name \in LanguageNames :
       lower(name) \notin Recognized => NoConstruct(lower(name))
  /\ (Done /\ lang \notin Recognized /\ previous_state = STATE_NORMAL)
       => block_state = STATE_NORMAL

\* A Cobol block that holds the comment start of other languages and gets
\* spans from the baseline rules.
C11_Witness ==
  /\ Done
  /\ language = "Cobol"
  /\ previous_state = STATE_NORMAL
  /\ Find(<<"/", "*">>, text, 0) # -1
  /\ calls # <<>>
  /\ block_state = STATE_NORMAL

\* ---- C12 ---------------------------------------------------------------
\* The previous state is a construct with no end delimiter in the language.
ContinuationWithoutEnd ==
  /\ previous_state # STATE_NORMAL
  /\ ml_end_regex(lang, previous_state) = None

\* C12: when the previous state is a construct kind whose end delimiter the
\* language does not define, the whole block ends with that construct's
\* style and the block's state is the previous state.
C12_MissingEndKeepsConstruct ==
  (Done /\ ContinuationWithoutEnd) =>
    /\ Painted(0, Len(text), ConstructStyle(previous_state))
    /\ block_state = previous_state

\* ---- C13 ---------------------------------------------------------------
\* C13: for an empty text no call paints any character: no call is made
\* after a Normal block, and the only call after a construct whose end
\* delimiter is defined is the construct's style over zero characters.  The
\* state is Normal after a Normal block and the previous state after such
\* a construct.
C13_EmptyBlock ==
  (Done /\ text = <<>>) =>
    /\ \A j \in 1..Len(calls) : calls[j][2] = 0
    /\ previous_state = STATE_NORMAL =>
         (calls = <<>> /\ block_state = STATE_NORMAL)
    /\ ContinuationHasEnd =>
         /\ calls = << <<0, 0, ConstructStyle(previous_state)>> >>
         /\ block_state = previous_state

\* An empty block inside a construct that stays open.
C13_Witness ==
  /\ Done
  /\ text = <<>>
  /\ ContinuationHasEnd
  /\ block_state = previous_state
  /\ block_state = STATE_ML_STRING_SQ

\* ---- C14 ---------------------------------------------------------------
\* The offset from which the text is read in state Normal: the start of the
\* block after a Normal block, the end of the continuation when it closes
\* in the block, and nowhere (-1) when it does not close.
NormalFrom ==
  IF previous_state = STATE_NORMAL THEN 0
  ELSE IF ml_end_regex(lang, previous_state) # None /\ ContinuationEnd # -1
  THEN ContinuationCursor
  ELSE -1

\* A construct of the given kind starts in the text read in state Normal
\* and has no end after it.
OpensAndStaysOpen(state) ==
  /\ NormalFrom # -1
  /\ \E k \in 1..Len(Constructs(lang, text, NormalFrom)) :
       /\ Constructs(lang, text, NormalFrom)[k].state = state
       /\ ~Constructs(lang, text, NormalFrom)[k].closed

\* C14: the block's state is a non-Normal state other than the previous
\* state only if a start delimiter of that kind matched in the block while
\* in state Normal and no end delimiter of that kind matched after it.
C14_OnlyStartEntersConstruct ==
  (Done /\ block_state # STATE_NORMAL /\ block_state # previous_state)
    => OpensAndStaysOpen(block_state)

\* ---- C15 ---------------------------------------------------------------
\* The end delimiter of the first construct of the text.
FirstEndDelim == ml_end_regex(lang, FirstStart.matched_state)

\* The offset just after the start delimiter of the first construct.
AfterFirstStart == FirstStart.next_ml_start + FirstStart.match_len

\* The end delimiter occurs over characters of the start delimiter of the
\* first construct, and nowhere after the start delimiter.
C15_Case ==
  /\ Done
  /\ previous_state = STATE_NORMAL
  /\ FirstStart.next_ml_start # -1
  /\ Find(FirstEndDelim, text, FirstStart.next_ml_start) # -1
  /\ Find(FirstEndDelim, text, FirstStart.next_ml_start) < AfterFirstStart
  /\ Find(FirstEndDelim, text, AfterFirstStart) = -1

\* C15: the end of a construct that starts at offset s with a start
\* delimiter of length m is the first end delimiter at offset s+m or later.
\* An end delimiter that shares characters with the start delimiter does
\* not close it: with no other end delimiter the construct stays open, and
\* a construct that closes is styled up to the end delimiter found from
\* s+m on.
C15_EndSearchedAfterStart ==
  /\ C15_Case =>
       /\ block_state = FirstStart.matched_state
       /\ block_state # STATE_NORMAL
       /\ calls[Len(calls)] =
            <<FirstStart.next_ml_start, Len(text) - FirstStart.next_ml_start,
              ConstructStyle(FirstStart.matched_state)>>
  /\ (/\ Done
      /\ previous_state = STATE_NORMAL
      /\ FirstStart.next_ml_start # -1
      /\ Find(FirstEndDelim, text, AfterFirstStart) # -1)
       => \E j \in 1..Len(calls) :
            calls[j] =
              <<FirstStart.next_ml_start,
                Find(FirstEndDelim, text, AfterFirstStart) + Len(FirstEndDelim)
                  - FirstStart.next_ml_start,
                ConstructStyle(FirstStart.matched_state)>>

\* The C++ block /*/ : the comment stays open.
C15_Witness ==
  /\ C15_Case
  /\ language = "C++"
  /\ text = <<"/", "*", "/">>
  /\ block_state = STATE_ML_COMMENT

\* ---- C16 ---------------------------------------------------------------
\* The construct kinds in their fixed order, and their start delimiters.
Kinds == <<STATE_ML_COMMENT, STATE_ML_STRING_DQ, STATE_ML_STRING_SQ>>

StartDelim(l, state) ==
  CASE state = STATE_ML_COMMENT -> ml_comment_start(l)
    [] state = STATE_ML_STRING_DQ -> ml_string_dq_start(l)
    [] state = STATE_ML_STRING_SQ -> ml_string_sq_start(l)

\* The first offset at or after at where kind number k starts, or -1.
StartAt(l, t, at, k) ==
  IF StartDelim(l, Kinds[k]) = None THEN -1
  ELSE Find(StartDelim(l, Kinds[k]), t, at)

HasStart(l, t, at) == \E k \in 1..3 : StartAt(l, t, at, k) # -1

\* The kind that starts at the smallest offset, the first in the fixed
\* order among those that start there.
Winner(l, t, at) ==
  CHOOSE k \in 1..3 :
    /\ StartAt(l, t, at, k) # -1
    /\ \A j \in 1..3 :
         StartAt(l, t, at, j) # -1 =>
           \/ StartAt(l, t, at, k) < StartAt(l, t, at, j)
           \/ (StartAt(l, t, at, k) = StartAt(l, t, at, j) /\ k <= j)

\* The span of the construct that wins at offset at: up to the end of its
\* end delimiter, or to the end of the text when it has none.
WinnerSpan(l, t, at) ==
  LET k == Winner(l, t, at)
      s == StartAt(l, t, at, k)
      end == ml_end_regex(l, Kinds[k])
      e == Find(end, t, s + Len(StartDelim(l, Kinds[k])))
  IN <<s, (IF e = -1 THEN Len(t) ELSE e + Len(end)) - s, ConstructStyle(Kinds[k])>>

\* C16: from every cursor of the text, the construct the scan opens is the
\* one whose start delimiter matches at the smallest offset at or after the
\* cursor, the first of Comment, StringDouble, StringSingle among those
\* that match there; the first scan of a call reports that construct's
\* span, and after a Normal block a construct left open gives its state.
C16_EarliestStartWins ==
  /\ Done => \A at \in 0..Len(text) :
       IF HasStart(lang, text, at)
       THEN /\ EarliestStart(lang, text, at).next_ml_start =
                 StartAt(lang, text, at, Winner(lang, text, at))
            /\ EarliestStart(lang, text, at).matched_state =
                 Kinds[Winner(lang, text, at)]
            /\ EarliestStart(lang, text, at).match_len =
                 Len(StartDelim(lang, Kinds[Winner(lang, text, at)]))
       ELSE EarliestStart(lang, text, at).next_ml_start = -1
  /\ (Done /\ NormalFrom # -1 /\ HasStart(lang, text, NormalFrom)) =>
       /\ \E j \in 1..Len(calls) : calls[j] = WinnerSpan(lang, text, NormalFrom)
       /\ (/\ previous_state = STATE_NORMAL
           /\ WinnerSpan(lang, text, 0)[1] + WinnerSpan(lang, text, 0)[2] = Len(text)
           /\ block_state # STATE_NORMAL)
            => block_state = Kinds[Winner(lang, text, 0)]

\* Both Python string kinds start in the text; the single-quote kind, which
\* is checked last, starts first and is the one opened.
C16_Witness ==
  /\ Done
  /\ previous_state = STATE_NORMAL
  /\ StartAt(lang, text, 0, 2) > StartAt(lang, text, 0, 3)
  /\ StartAt(lang, text, 0, 3) # -1
  /\ block_state = STATE_ML_STRING_SQ

\* ---- C28 ---------------------------------------------------------------
\* The constructs after the continuation's end, and the text after the
\* first of them.
C28_Later == Constructs(lang, text, ContinuationCursor)

C28_Rest == TailText(text, C28_Later[1].stop)

C28_Case ==
  /\ Done
  /\ ContinuationHasEnd
  /\ ContinuationEnd # -1
  /\ Len(C28_Later) = 1
  /\ C28_Later[1].closed
  /\ C28_Rest # <<>>
  /\ Find(ml_end_regex(lang, previous_state), C28_Rest, 0) = -1

\* C28: when the previous state is a construct that closes in the text,
\* the text after it holds one construct that opens and closes, and text
\* without an end delimiter follows, that text is handled by the scan
\* alone: the block's state is Normal, and after the spans of the
\* continuation and of the closed construct no span paints the whole of
\* that text with the style of the previous block's construct.
C28_RestAfterClosedConstructIsScanned ==
  C28_Case =>
    /\ block_state = STATE_NORMAL
    /\ \A j \in 3..Len(calls) :
         calls[j] # <<0, Len(C28_Rest), ConstructStyle(previous_state)>>

\* ---- C29 ---------------------------------------------------------------
\* The segment the single-line rules are applied to when the previous state
\* is Normal: the text before the first construct start, the whole text
\* when there is none.
SegmentEnd ==
  IF FirstStart.next_ml_start = -1 THEN Len(text) ELSE FirstStart.next_ml_start

Segment == SubSeq(text, 1, SegmentEnd)

\* The matches of each rule of the table in the segment.
SegmentMatches ==
  [r \in 1..Len(highlighting_rules(lang)) |->
     GlobalMatch(highlighting_rules(lang)[r][1], Segment)]

\* The rules with a match that covers the character at offset i.
Covering(i) ==
  {r \in 1..Len(highlighting_rules(lang)) :
     \E j \in 1..Len(SegmentMatches[r]) :
       /\ SegmentMatches[r][j][1] <= i
       /\ i < SegmentMatches[r][j][1] + SegmentMatches[r][j][2]}

\* One application of the rules, with no later span of the same call: the
\* previous state is Normal and no construct closes in the text.
C29_Case ==
  /\ Done
  /\ previous_state = STATE_NORMAL
  /\ \A j \in 1..Len(LineConstructs) : ~LineConstructs[j].closed

\* C29: within one application of the single-line rules to a segment, the
\* rules paint in table order and each paint overwrites the earlier ones:
\* every character of the segment ends with the style of the last rule of
\* the table that has a match covering it, and with no style when no rule
\* has one.
C29_LastCoveringRuleWins ==
  C29_Case =>
    \A i \in 0..(SegmentEnd - 1) :
      Formats[i + 1] =
        IF Covering(i) = {} THEN "none"
        ELSE highlighting_rules(lang)[
               CHOOSE r \in Covering(i) : \A q \in Covering(i) : q <= r][2]

\* A character covered by matches of two rules with different styles, and
\* one covered by none.
C29_Witness ==
  /\ C29_Case
  /\ \E i \in 0..(SegmentEnd - 1) :
       \E r, q \in Covering(i) :
         /\ r < q
         /\ highlighting_rules(lang)[r][2] # highlighting_rules(lang)[q][2]
         /\ Formats[i + 1] = highlighting_rules(lang)[q][2]
  /\ \E i \in 0..(SegmentEnd - 1) : Covering(i) = {}

\* ---- C30 ---------------------------------------------------------------
\* The offset the scan of the first invocation starts at, and the number
\* of spans the continuation made before it.
ScanCursor ==
  IF ContinuationHasEnd /\ ContinuationEnd # -1 THEN ContinuationCursor ELSE 0

ContinuationSpans == IF ContinuationHasEnd THEN 1 ELSE 0

ScanStart == EarliestStart(lang, text, ScanCursor)

\* The single-line rules applied to the text from the cursor to just
\* before the construct start.
SpansBeforeStart ==
  IF ScanStart.next_ml_start = ScanCursor THEN <<>>
  ELSE RuleCalls(highlighting_rules(lang),
                 SubSeq(text, ScanCursor + 1, ScanStart.next_ml_start),
                 ScanCursor)

\* The same rules applied to the text from the cursor to the end.
SpansToLineEnd ==
  RuleCalls(highlighting_rules(lang),
            SubSeq(text, ScanCursor + 1, Len(text)), ScanCursor)

C30_Case ==
  /\ Done
  /\ ShouldScan(ScanCursor, Len(text))
  /\ ScanStart.next_ml_start # -1

\* C30: in a scan that finds a construct start at offset s, the single-line
\* rules are matched against the text from the cursor to just before s
\* only: the spans made before the construct's span are the matches of the
\* rules in that text, each lies within [cursor, s), and the next span is
\* the construct's, from s on.
C30_RulesOnlyBeforeStart ==
  C30_Case =>
    /\ Len(calls) > ContinuationSpans + Len(SpansBeforeStart)
    /\ SubSeq(calls, ContinuationSpans + 1,
              ContinuationSpans + Len(SpansBeforeStart)) = SpansBeforeStart
    /\ \A j \in 1..Len(SpansBeforeStart) :
         LET span == calls[ContinuationSpans + j]
         IN /\ ScanCursor <= span[1]
            /\ span[1] + span[2] <= ScanStart.next_ml_start
    /\ calls[ContinuationSpans + Len(SpansBeforeStart) + 1][1] =
         ScanStart.next_ml_start
    /\ calls[ContinuationSpans + Len(SpansBeforeStart) + 1][3] =
         ConstructStyle(ScanStart.matched_state)

\* A construct start after text the rules match, where the rules applied
\* up to the end of the line would match more.
C30_Witness ==
  /\ C30_Case
  /\ ScanStart.next_ml_start > ScanCursor
  /\ SpansBeforeStart # <<>>
  /\ Len(SpansToLineEnd) > Len(SpansBeforeStart)

\* ---- C32 ---------------------------------------------------------------
\* The construct of the previous state is continued: its end delimiter is
\* set.
C32_Case ==
  /\ Done
  /\ previous_state # STATE_NORMAL
  /\ ml_end_regex(lang, previous_state) # None

\* C32: when the previous state is a construct whose end delimiter the
\* language sets, the block's state after the call is that state or
\* Normal, never another construct's state.
C32_NoMoveBetweenConstructs ==
  C32_Case => block_state \in {previous_state, STATE_NORMAL}

\* A Python block that closes the double-quoted string of the previous
\* block and then opens a single-quoted one that it does not close.
C32_Witness ==
  /\ C32_Case
  /\ lang = "python"
  /\ previous_state = STATE_ML_STRING_DQ
  /\ ContinuationHasEnd
  /\ Find(ml_string_sq_start(lang), text, ContinuationCursor) = ContinuationCursor
  /\ Find(ml_string_sq_end(lang), text,
          ContinuationCursor + Len(ml_string_sq_start(lang))) = -1
  /\ block_state = STATE_NORMAL

(***************************************************************************)
(* Properties of the nested highlightBlock calls, checked under SpecCall.  *)
(***************************************************************************)
\* C17: highlightBlock terminates without raising for every finite text,
\* language and previous state: no call raises, every recursive call gets a
\* strictly shorter text than its caller, and the calls never nest deeper
\* than the length of the text plus one.
C17_NoCallRaises ==
  /\ pc # "raised"
  /\ \A i \in 1..(Len(stack) - 1) : stack[i + 1].length < stack[i].length
  /\ stack # <<>> => Len(text) - tail_at < stack[Len(stack)].length
  /\ Len(stack) <= Len(text) + 1

(***************************************************************************)
(* Properties of the constructed highlighter, checked under SpecBuild.     *)
(***************************************************************************)
Built == pc = "built"

\* The start and end delimiter the highlighter holds for each construct.
CommentDelims == <<highlighter.ml_comment_start, highlighter.ml_comment_end>>
StringDoubleDelims ==
  <<highlighter.ml_string_dq_start, highlighter.ml_string_dq_end>>
StringSingleDelims ==
  <<highlighter.ml_string_sq_start, highlighter.ml_string_sq_end>>

NoDelims == <<None, None>>

\* C18: once the tables are built, c++, c#, javascript and css have exactly
\* the comment construct /* .. */, html exactly the comment construct
\* <!-- .. -->, python exactly the two triple-quote string constructs and
\* no comment construct, and every other language no construct; for every
\* language and construct the start and the end delimiter are both set or
\* both unset.
C18_ConstructsPerLanguage ==
  Built =>
    /\ CommentDelims =
         IF highlighter.language \in {"c++", "c#", "javascript", "css"}
         THEN <<<<"/", "*">>, <<"*", "/">>>>
         ELSE IF highlighter.language = "html"
         THEN <<<<"<", "!", "-", "-">>, <<"-", "-", ">">>>>
         ELSE NoDelims
    /\ StringDoubleDelims =
         IF highlighter.language = "python"
         THEN <<<<"\"", "\"", "\"">>, <<"\"", "\"", "\"">>>>
         ELSE NoDelims
    /\ StringSingleDelims =
         IF highlighter.language = "python"
         THEN <<<<"'", "'", "'">>, <<"'", "'", "'">>>>
         ELSE NoDelims
    /\ \A d \in {CommentDelims, StringDoubleDelims, StringSingleDelims} :
         (d[1] = None) <=> (d[2] = None)

\* A highlighter built for HTML holds the <!-- .. --> comment construct.
C18_Witness ==
  /\ Built
  /\ language = "HTML"
  /\ highlighter.language = "html"
  /\ CommentDelims = <<<<"<", "!", "-", "-">>, <<"-", "-", ">">>>>
  /\ StringSingleDelims = NoDelims

\* The colour attributes of the highlighter loaded from a colour key.
AttributesOf(key) ==
  CASE key = "operator_brace" -> {"operator_color", "brace_color"}
    [] key = "preprocessor_decorator" -> {"preprocessor_color", "decorator_color"}
    [] OTHER -> {attr \in DOMAIN highlighter.colors :
                   attr = key \o "_color"}

\* C19: for each configurable colour key, the colour the highlighter uses
\* is the stored value when one is stored and names a colour, and the
\* key's built-in colour when none is stored or the stored value names no
\* colour.
C19_StoredOrDefaultColor ==
  Built =>
    \A key \in ColorKeys :
      \A attr \in AttributesOf(key) :
        highlighter.colors[attr] =
          IF key \in DOMAIN settings /\ IsColorName(settings[key])
          THEN QColor(settings[key])
          ELSE QColor(DEFAULT_COLORS[key])

(***************************************************************************)
(* Properties of highlighting a document twice, checked under SpecDoc and  *)
(* SpecReload.                                                             *)
(***************************************************************************)
\* C10: when a document highlighted from its first block on is highlighted
\* again the same way, every block highlighted again has the state and the
\* spans its first highlighting left.
C10_RehighlightChangesNothing ==
  pass = "again" =>
    \A k \in 1..cursor :
      /\ doc_states[k] = snap.states[k]
      /\ doc_calls[k] = snap.calls[k]

\* A document of two blocks highlighted twice, the first block leaving a
\* construct open and the second closing it.
C10_Witness ==
  /\ pass = "again"
  /\ cursor = Len(doc)
  /\ Len(doc) >= 2
  /\ doc_states[1] # STATE_NORMAL
  /\ doc_states[2] = STATE_NORMAL
  /\ doc_calls[2] # <<>>

\* The offsets and lengths of the spans of each block.
SpanExtents(block_calls) ==
  [k \in DOMAIN block_calls |->
     [j \in DOMAIN block_calls[k] |->
        <<block_calls[k][j][1], block_calls[k][j][2]>>]]

\* The colour a span is painted with by a highlighter with these colours.
SpanColor(colors, span) == colors[ForegroundOf(span[3])]

RECURSIVE FreshStates(_, _, _)
FreshStates(l, d, k) ==
  IF k = 0 THEN <<>>
  ELSE Append(FreshStates(l, d, k - 1),
              highlightBlock(l, d[k],
                             IF k = 1 THEN STATE_NORMAL
                             ELSE FreshStates(l, d, k - 1)[k - 1],
                             STATE_NORMAL).state)

\* C21: after the language selected in the editor changes, the highlighter
\* is one built for the new language and every block is highlighted again
\* from the first block on, the first with previous state Normal; once that
\* is done every block holds the state the new language's table gives it,
\* none a state left by the previous language's table.
C21_LanguageChangeRecomputesStates ==
  (pass = "changed" /\ cursor = Len(doc)) =>
    /\ highlighter.language = lower(language)
    /\ doc_states = FreshStates(lower(language), doc, Len(doc))

\* A document whose second block sat in a Python triple-quoted string,
\* highlighted again for C++.
C21_Witness ==
  /\ pass = "changed"
  /\ cursor = Len(doc)
  /\ language = "C++"
  /\ Len(doc) = 2
  /\ snap.states = <<STATE_ML_STRING_DQ, STATE_ML_STRING_DQ>>
  /\ doc_states[1] = STATE_NORMAL
  /\ doc_states[2] = STATE_ML_COMMENT

(***************************************************************************)
(* Properties of the states of a highlighted document, checked under       *)
(* SpecChain.                                                              *)
(***************************************************************************)
\* The start delimiter of a multi-line state (lines 127-138).
ml_start_regex(l, state) ==
  CASE state = STATE_ML_COMMENT -> ml_comment_start(l)
    [] state = STATE_ML_STRING_DQ -> ml_string_dq_start(l)
    [] state = STATE_ML_STRING_SQ -> ml_string_sq_start(l)
    [] OTHER -> None

\* STATE_NORMAL and the constructs the language has both delimiters of.
DefinedStates(l) ==
  {STATE_NORMAL} \cup
  {s \in States \ {STATE_NORMAL} :
     ml_start_regex(l, s) # None /\ ml_end_regex(l, s) # None}

\* The blocks the current highlighter has highlighted, from the first on.
HighlightedBlocks == IF pc = "doc" THEN 1..cursor ELSE {}

\* The state highlightBlock leaves on block k, had the block held stale.
StateOver(k, stale) ==
  highlightBlock(highlighter.language, doc[k],
                 previousBlockState(doc_states, k), stale).state

\* C34: in a document highlighted from its first block on with the previous
\* state STATE_NORMAL, each block taking its predecessor's resulting state,
\* every highlighted block's state is STATE_NORMAL or a construct the
\* highlighter's language has both a start and an end delimiter of, and it
\* is a state highlightBlock stored: whatever state the block held before
\* the call, the call leaves the same state.
C34_ReachableStatesAreStored ==
  \A k \in HighlightedBlocks :
    /\ doc_states[k] \in DefinedStates(lower(highlighter.language))
    /\ \A stale \in States : StateOver(k, stale) = doc_states[k]

\* The first of two blocks was highlighted: it held a state the language
\* has no construct of, as the second block still does, and is left inside
\* a construct of the language.
C34_Witness ==
  /\ pc = "doc"
  /\ cursor = 1
  /\ Len(doc) = 2
  /\ doc_states[2] \notin DefinedStates(lower(highlighter.language))
  /\ doc_states[1] \notin {STATE_NORMAL, doc_states[2]}

\* Both blocks were highlighted, the second with a construct of the
\* language as its previous state.
C34_WitnessChained ==
  /\ pc = "doc"
  /\ cursor = 2
  /\ doc_states[1] # STATE_NORMAL
  /\ doc_states[2] = STATE_NORMAL
  /\ doc[2] # <<>>

(***************************************************************************)
(* Properties of the highlighting after an edit, checked under SpecEdit.   *)
(***************************************************************************)
\* C22: from a document whose stored states are those of a highlighting
\* from the first block on, an edit of block k makes the editor highlight
\* blocks k, k+1, ... in order until a block keeps the state it had, or the
\* document ends; this always stops, and once it has stopped every block
\* holds the state that highlighting the whole edited document from its
\* first block on, with previous state Normal, gives it.  It stops because
\* while it runs there is a next block to highlight and every step moves
\* on by at least one block, never past the last.
C22_CascadeReachesFixpoint ==
  /\ [](pass = "settled" =>
          doc_states = FreshStates(lower(language), doc, Len(doc)))
  /\ [](pc = "cascade" => cursor < Len(doc))
  /\ [][pc = "cascade" => (cursor < cursor' /\ cursor' <= Len(doc))]_vars

\* An edit of the first block after which the first block and the second
\* changed their states, the second to a construct's.
C22_Witness ==
  /\ pass = "settled"
  /\ Len(doc) >= 2
  /\ doc[1] # <<>>
  /\ doc_states[1] # snap.states[1]
  /\ doc_states[2] # snap.states[2]
  /\ doc_states[2] # STATE_NORMAL

(***************************************************************************)
(* Properties of the database functions, checked under SpecStore.          *)
(***************************************************************************)
\* The ids of a list load_snippets returned.
IdsOf(found) == {found[i][1] : i \in DOMAIN found}

\* The comma-separated tags of a row.
TagsOf(r) ==
  IF r.tags = <<>> THEN {}
  ELSE {split(r.tags, ",")[i] : i \in DOMAIN split(r.tags, ",")}

\* load_snippets was called with a tag to filter by and no other condition.
C24_Case ==
  /\ returned.fn = "load_snippets"
  /\ returned.args.tag_filter \notin {<<>>, AllTags}
  /\ returned.args.search_term = <<>>
  /\ returned.args.language_filter = AllLanguages

\* C24: load_snippets with a tag filter T returns a snippet whose stored
\* tags are normalized if and only if T is exactly one of the snippet's
\* comma-separated tags: a tag that differs from T in letter case only, or
\* that holds T, or that T matches through a wildcard, is no match.
C24_TagFilterIsExactMembership ==
  C24_Case =>
    \A r \in snippets :
      tags(r.tags) = r.tags =>
        (r.id \in IdsOf(returned.value)
           <=> returned.args.tag_filter \in TagsOf(r))

\* The adds and updates among the calls made.
Mutations == {i \in DOMAIN log : log[i].fn \in {"add_snippet", "update_snippet"}}

\* The place in log of the last add or update of the snippet.
LastMutation(snippet_id) ==
  CHOOSE i \in Mutations :
    /\ log[i].id = snippet_id
    /\ \A j \in Mutations : log[j].id = snippet_id => j <= i

\* C25: in every list load_snippets returns, a snippet whose last add or
\* update happened after that of another snippet of the list comes before
\* it.
C25_MostRecentlyMutatedFirst ==
  returned.fn = "load_snippets" =>
    \A i, j \in DOMAIN returned.value :
      LastMutation(returned.value[i][1]) > LastMutation(returned.value[j][1])
        => i < j

\* C25, on update_snippet: the call leaves the id and created_at of the
\* row and sets its updated_at to the time of the call.
C25_UpdateKeepsIdAndCreatedAt ==
  [][(Len(log') > Len(log) /\ log'[Len(log')].fn = "update_snippet") =>
       \A r \in snippets :
         r.id = log'[Len(log')].id =>
           \E u \in snippets' :
             /\ u.id = r.id
             /\ u.created_at = r.created_at
             /\ u.updated_at = clock]_vars

\* The calls of add_snippet among the calls made.
Adds == {i \in DOMAIN log : log[i].fn = "add_snippet"}

\* The snippet added by call i was neither updated nor deleted since.
Untouched(i) ==
  \A j \in DOMAIN log :
    j > i => ~(/\ log[j].id = log[i].id
               /\ log[j].fn \in {"update_snippet", "delete_snippet"})

\* The ids delete_snippet was called with.
Deleted == {log[i].id : i \in {j \in DOMAIN log : log[j].fn = "delete_snippet"}}

\* The texts of a row are those of a.
HoldsArgs(row, a) ==
  /\ row # None
  /\ row.title = a.title
  /\ row.code = a.code
  /\ row.language = a.language
  /\ row.tags = a.tags
  /\ row.description = a.description

\* C26: get_snippet_details of an id add_snippet returned gives the texts
\* add_snippet was called with, as long as the snippet was neither updated
\* nor deleted; after delete_snippet of an id, get_snippet_details of it
\* gives None and no list of load_snippets holds it; no two calls of
\* add_snippet returned the same id.
C26_StoreRoundTrip ==
  /\ \A i \in Adds :
       Untouched(i) =>
         HoldsArgs(get_snippet_details(snippets, log[i].id), log[i].args)
  /\ \A x \in Deleted :
       /\ get_snippet_details(snippets, x) = None
       /\ \A search_term \in SearchTerms :
            \A filter \in TagFilters :
              \A language_filter \in LanguageFilters :
                \A found \in load_snippets(snippets, search_term, filter,
                                           language_filter) :
                  x \notin IdsOf(found)
  /\ \A i, j \in Adds : i # j => log[i].id # log[j].id
  /\ returned.fn = "get_snippet_details" =>
       returned.value = get_snippet_details(snippets, returned.args)

\* A snippet was added and one deleted, time passed, and
\* get_snippet_details was called for the deleted one and, in another
\* state, for the one still stored.
C26_Witness ==
  /\ returned.fn = "get_snippet_details"
  /\ returned.args \in Deleted
  /\ returned.value = None
  /\ clock > 0

(***************************************************************************)
(* Properties of _save_snippet, checked under SpecSave.                    *)
(***************************************************************************)
\* The comma-separated tags of a stored tags string, in order.
TokensOf(stored) == IF stored = <<>> THEN <<>> ELSE split(stored, ",")

\* Each piece trimmed.
Trimmed(parts) == [i \in DOMAIN parts |-> strip(parts[i])]

\* The tags string of the row the last call of log' wrote.
StoredTags == get_snippet_details(snippets', log'[Len(log')].id).tags

\* C23: the tags string a save stores, and get_snippet_details reads
\* again, is made of the pieces of the tags field between its commas,
\* trimmed, the empty ones left out, in their order and joined by commas;
\* none of its tags is empty or begins or ends with whitespace; and
\* normalizing it again gives the same string.
C23_SavedTagsAreNormalized ==
  [][Len(log') > Len(log) =>
       /\ TokensOf(StoredTags)
            = SelectSeq(Trimmed(split(tags_input, ",")),
                        LAMBDA t : t # <<>>)
       /\ \A i \in DOMAIN TokensOf(StoredTags) :
            /\ TokensOf(StoredTags)[i] # <<>>
            /\ strip(TokensOf(StoredTags)[i]) = TokensOf(StoredTags)[i]
       /\ tags(StoredTags) = StoredTags
       /\ SpacedTags = tags_input
            => StoredTags = <<"a", ",", "b", ",", "c">>]_vars

\* The tags `a, b ,c` were saved: the snippet is selected again and the
\* tags field shows its stored tags `a,b,c`.
C23_Witness ==
  /\ shown = "added"
  /\ current_snippet_id # None
  /\ get_snippet_details(snippets, current_snippet_id) # None
  /\ get_snippet_details(snippets, current_snippet_id).tags
       = <<"a", ",", "b", ",", "c">>
  /\ tags_input = <<"a", ",", "b", ",", "c">>

\* The messages only _save_snippet shows.
SaveMessages == {"Input Error", "added", "updated"}

\* C27: a save with an empty or whitespace-only title is rejected: no
\* add_snippet or update_snippet call is made, the stored rows and
\* current_snippet_id stay as they are; so every stored row has a title
\* that is not empty and is trimmed.
C27_BlankTitleIsRejected ==
  /\ [][(strip(title_input) = <<>> /\ shown' \in SaveMessages) =>
          /\ shown' = "Input Error"
          /\ log' = log
          /\ snippets' = snippets
          /\ current_snippet_id' = current_snippet_id]_vars
  /\ [](\A r \in snippets : r.title # <<>> /\ strip(r.title) = r.title)

\* A save was rejected while a stored snippet was selected.
C27_Witness ==
  /\ shown = "Input Error"
  /\ current_snippet_id # None
  /\ get_snippet_details(snippets, current_snippet_id) # None
  /\ strip(title_input) = <<>>

(***************************************************************************)
(* Properties of one highlightBlock call on C++ text with line comments,   *)
(* quotes and directives, checked under SpecLine.                          *)
(***************************************************************************)
\* The first character of the block that is no space is `#`.
DirectiveLine ==
  \E i \in 1..Len(text) :
    /\ text[i] = "#"
    /\ \A j \in 1..(i - 1) : text[j] \in SpaceChars

\* C31: in C++ a span of the preprocessor style is made only on a block
\* whose first character that is no space is `#`; a `#` after a comment
\* that closes earlier on the block is no directive.
C31_PreprocessorOnlyOnDirectiveLines ==
  (Done /\ lang = "c++") =>
    ((\E i \in DOMAIN calls : calls[i][3] = "preprocessor_format")
       => DirectiveLine)

\* The first `/*` of the block, by its offset, or -1.
FirstCommentStart == Find(<<"/", "*">>, text, 0)

\* A C++ block after a Normal one whose first `/*` has no `*/` after it.
C33_Case ==
  /\ Done
  /\ lang = "c++"
  /\ previous_state = STATE_NORMAL
  /\ FirstCommentStart # -1
  /\ Find(<<"*", "/">>, text, FirstCommentStart + 2) = -1

\* C33: the start of a construct is looked for in the raw text of the
\* block, whatever the single-line rules match: a C++ block after a Normal
\* one whose first `/*` is not closed ends in the comment state, also when
\* the `/*` stands after `//` or after a double quote.
C33_StartFoundInRawText ==
  C33_Case => block_state = STATE_ML_COMMENT

\* The `/*` stands in a line comment: the block begins with `//`.
C33_Witness ==
  /\ C33_Case
  /\ Len(text) >= 2
  /\ SubSeq(text, 1, 2) = <<"/", "/">>
  /\ FirstCommentStart >= 2
  /\ block_state = STATE_ML_COMMENT
  /\ \E i \in DOMAIN calls :
       calls[i] = <<0, FirstCommentStart, "comment_format">>

\* The `/*` stands after a double quote.
C33_WitnessInString ==
  /\ C33_Case
  /\ text[1] = "\""
  /\ FirstCommentStart = 1
  /\ text[Len(text)] = "\""
  /\ block_state = STATE_ML_COMMENT


(***************************************************************************)
(* Properties of the main window's handlers, checked under SpecWindow.     *)
(***************************************************************************)
\* The step is a save that called add_snippet or update_snippet.
SaveStep ==
  /\ Len(log') = Len(log) + 1
  /\ log'[Len(log')].fn # "delete_snippet"

\* The snippet of the last call is among the items of the list.
Listed(made, items) == \E i \in DOMAIN items : items[i] = made[Len(made)].id

\* The ids of the stored rows.
StoredIds(rows) == {r.id : r \in rows}

\* C35: a save that adds a snippet the filtered list shows leaves
\* current_snippet_id at the new id and one row more; the next save, the
\* added snippet being selected still (no New, no delete, no change of
\* selection in between), calls update_snippet on that id and leaves the
\* number of rows and their ids as they are: the two saves add one row.
C35_SecondSaveUpdatesAddedSnippet ==
  [][/\ (SaveStep /\ log'[Len(log')].fn = "add_snippet"
                  /\ Listed(log', list_items')) =>
          /\ current_snippet_id' = log'[Len(log')].id
          /\ current_snippet_id' \notin StoredIds(snippets)
          /\ Cardinality(snippets') = Cardinality(snippets) + 1
     /\ (SaveStep /\ Len(log) > 0
                  /\ log[Len(log)].fn = "add_snippet"
                  /\ selected_item = log[Len(log)].id) =>
          /\ log'[Len(log')].fn = "update_snippet"
          /\ log'[Len(log')].id = log[Len(log)].id
          /\ StoredIds(snippets') = StoredIds(snippets)
          /\ Cardinality(snippets') = Cardinality(snippets)]_vars

\* A snippet was added under a search text it matches, its title was
\* changed and it was saved again: one row, with the new title.
C35_Witness ==
  /\ shown = "updated"
  /\ search_input # <<>>
  /\ Len(log) = 2
  /\ log[1].fn = "add_snippet"
  /\ log[2].fn = "update_snippet"
  /\ log[2].id = log[1].id
  /\ log[2].args.title # log[1].args.title
  /\ Cardinality(snippets) = 1
  /\ current_snippet_id = log[1].id

\* The step is one after which the application has cleared the details
\* panel: New, a delete, or a save whose snippet is not in the list.
ClearsPanel ==
  \/ shown' = "Enter details for new snippet..."
  \/ shown' = "deleted"
  \/ SaveStep /\ ~Listed(log', list_items')

\* C36: after New, after a delete and after a save whose snippet the
\* filtered list does not show, current_snippet_id is None; and a save made
\* while no item is selected, the panel having been cleared, calls
\* add_snippet and leaves every stored row as it was.
C36_ClearedPanelSavesNewRecord ==
  [][/\ ClearsPanel => current_snippet_id' = None
     /\ (SaveStep /\ selected_item = None) =>
          /\ log'[Len(log')].fn = "add_snippet"
          /\ snippets \subseteq snippets']_vars

\* A save made while no item was selected has changed a stored row.
C36_Overwritten ==
  /\ Len(log) = 2
  /\ log[1].fn = "add_snippet"
  /\ log[2].fn = "update_snippet"
  /\ log[2].args.title # log[1].args.title
  /\ selected_item = None
  /\ search_input # <<>>

====
